---- MODULE Spec2Model ----
(***************************************************************************)
(* Model of the POSM data-collection application (src/app.py): the         *)
(* YouPosmHandler (connection setup, sheet schema guard, lookup sheets,    *)
(* image upload, ledger append) and the form-submission branch of main().  *)
(*                                                                         *)
(* Text is a sequence of one-character tokens (multi-character tokens      *)
(* stand for fixed literals such as header names); "" is <<>>.  A          *)
(* worksheet is the sequence of its rows, a row the sequence of its cells. *)
(***************************************************************************)
EXTENDS Integers, Sequences, FiniteSets, TLC

\* ------------------------------------------------------------- bounds
MaxSessions == 2
MaxSubmissions == 2
MaxFaults == 1
MaxRaceAppends == 2

\* ------------------------------------------------------------- text
SP == " "

RECURSIVE lstrip(_)
lstrip(s) == IF s # <<>> /\ Head(s) = SP THEN lstrip(Tail(s)) ELSE s

RECURSIVE rstrip(_)
rstrip(s) ==
    IF s # <<>> /\ s[Len(s)] = SP THEN rstrip(SubSeq(s, 1, Len(s) - 1)) ELSE s

\* str.strip()
strip(s) == rstrip(lstrip(s))

\* code point of the characters the model uses (Python compares str by code point)
CharCode(c) ==
    CASE c = " " -> 32
      [] c = "#" -> 35
      [] c = "-" -> 45
      [] c = "1" -> 49
      [] c = "A" -> 65
      [] c = "B" -> 66
      [] c = "J" -> 74
      [] c = "K" -> 75
      [] c = "_" -> 95
      [] c = "n" -> 110
      [] OTHER -> 200

RECURSIVE StrLess(_, _)
StrLess(a, b) ==
    IF b = <<>> THEN FALSE
    ELSE IF a = <<>> THEN TRUE
    ELSE IF CharCode(Head(a)) # CharCode(Head(b))
         THEN CharCode(Head(a)) < CharCode(Head(b))
    ELSE IF Head(a) # Head(b) THEN FALSE
    ELSE StrLess(Tail(a), Tail(b))

\* sorted(...) of a collection of distinct strings
RECURSIVE sorted(_)
sorted(S) ==
    IF S = {} THEN <<>>
    ELSE LET m == CHOOSE x \in S : \A y \in S \ {x} : StrLess(x, y)
         IN  <<m>> \o sorted(S \ {m})

Range(q) == {q[i] : i \in 1..Len(q)}

\* ------------------------------------------------------------- worksheets
MAIN == "Sheet1"
EMPLOYEE == "Employee Sheet"
STORE == "Store Sheet"
SheetNames == {MAIN, EMPLOYEE, STORE}

main_expected_headers ==
    << <<"Store_Name">>, <<"Employee_Name">>, <<"Date">>,
       <<"Before_Image_URL">>, <<"After_Image_URL">>,
       <<"Timestamp">>, <<"Status">>, <<"Notes">> >>
employee_expected_headers == << <<"Employee_Name">> >>
store_expected_headers == << <<"Store_Name">> >>

expected_headers(sh) ==
    CASE sh = MAIN -> main_expected_headers
      [] sh = EMPLOYEE -> employee_expected_headers
      [] sh = STORE -> store_expected_headers

\* any(row) is false: every cell is the empty string
IsBlankRow(row) == \A i \in 1..Len(row) : row[i] = <<>>

RECURSIVE DropTrailingEmpty(_)
DropTrailingEmpty(row) ==
    IF row # <<>> /\ row[Len(row)] = <<>>
    THEN DropTrailingEmpty(SubSeq(row, 1, Len(row) - 1))
    ELSE row

RECURSIVE DropTrailingBlankRows(_)
DropTrailingBlankRows(ws) ==
    IF ws # <<>> /\ IsBlankRow(ws[Len(ws)])
    THEN DropTrailingBlankRows(SubSeq(ws, 1, Len(ws) - 1))
    ELSE ws

\* worksheet.row_values(1): the cells of row 1 up to the last non-empty one
row_values(ws) == IF ws = <<>> THEN <<>> ELSE DropTrailingEmpty(ws[1])

\* worksheet.get_all_values()
get_all_values(ws) == ws

\* worksheet.clear()
clear(ws) == <<>>

\* an append that writes over the last row holding data
append_row_over_last(ws, row) ==
    LET kept == DropTrailingBlankRows(ws)
    IN  IF kept = <<>> THEN <<row>>
        ELSE Append(SubSeq(kept, 1, Len(kept) - 1), row)

\* worksheet.append_row(row): the row goes after the last row holding data
append_row(ws, row) == Append(DropTrailingBlankRows(ws), row)

\* worksheet.get_all_records(): rows 2.. keyed by the cells of row 1;
\* record.get(key, '') of record i (row i + 1)
NumRecords(ws) == IF Len(ws) <= 1 THEN 0 ELSE Len(ws) - 1
HasColumn(ws, key) == ws # <<>> /\ \E c \in 1..Len(ws[1]) : ws[1][c] = key
RecordGet(ws, i, key) ==
    IF ~HasColumn(ws, key) THEN <<>>
    ELSE LET c == CHOOSE k \in 1..Len(ws[1]) : ws[1][k] = key
         IN  IF c <= Len(ws[i + 1]) THEN ws[i + 1][c] ELSE <<>>

\* ------------------------------------------------------------- faults
\* An external call that raises is named <<worksheet title or "", call>>.
SetupFaults == {<<"", "open_by_key">>, <<"", "storage_client">>, <<"", "exists">>}
                   \cup ({EMPLOYEE, STORE} \X {"worksheet", "add_worksheet", "append_header"})
                   \cup (SheetNames \X {"row_values", "get_all_values", "clear", "append_row"})

\* the calls of the "Setup Google Cloud Storage" block, and those of the
\* "Setup Google Sheets" block
StorageFaults == {<<"", "storage_client">>, <<"", "exists">>}
SheetsFaults == SetupFaults \ StorageFaults

\* the sets of at most n of the calls
RECURSIVE AtMost(_, _)
AtMost(calls, n) ==
    IF n = 0 THEN {{}}
    ELSE LET P == AtMost(calls, n - 1)
         IN  P \cup {F \cup {c} : F \in P, c \in calls}

FaultSets(calls) == AtMost(calls, MaxFaults)

\* the failing calls of one handler construction: the two setup blocks fail
\* independently of each other
SetupFaultSets ==
    {Fs \cup Ft : Fs \in FaultSets(SheetsFaults), Ft \in FaultSets(StorageFaults)}

\* ------------------------------------------------------------- schema guard
\* One worksheet's part of _ensure_sheet_structure.  ws: the worksheet's rows;
\* F: the calls that raise.  Returns the rows afterwards and the message shown.
\* a guard that takes an unreadable or blank first row for an empty sheet
EnsureWithoutEmptinessCheck(sh, ws, F) ==
    LET current == IF <<sh, "row_values">> \in F THEN <<>> ELSE row_values(ws)
    IN  IF current = <<>>
        THEN [ws |-> append_row(clear(ws), expected_headers(sh)), msg |-> "configured"]
        ELSE IF current # expected_headers(sh)
             THEN [ws |-> ws, msg |-> "headers_differ"]
             ELSE [ws |-> ws, msg |-> "none"]

\* a guard that only ever reports
EnsureNeverWrites(sh, ws, F) ==
    LET current == IF <<sh, "row_values">> \in F THEN <<>> ELSE row_values(ws)
    IN  IF current # <<>> /\ current # expected_headers(sh)
        THEN [ws |-> ws, msg |-> "headers_differ"]
        ELSE [ws |-> ws, msg |-> "none"]

\* a guard that resets a sheet whose first row is not the expected one
EnsureWipesOnMismatch(sh, ws, F) ==
    LET current == IF <<sh, "row_values">> \in F THEN <<>> ELSE row_values(ws)
    IN  IF current # expected_headers(sh)
        THEN [ws |-> append_row(clear(ws), expected_headers(sh)), msg |-> "configured"]
        ELSE [ws |-> ws, msg |-> "none"]

ensure_one(sh, ws, F) ==
    LET current == IF <<sh, "row_values">> \in F THEN <<>> ELSE row_values(ws)
    IN  IF current = <<>>
        THEN IF <<sh, "get_all_values">> \in F
             THEN [ws |-> ws, msg |-> "could_not_verify"]
             ELSE LET all_values == get_all_values(ws)
                  IN  IF all_values = <<>>
                         \/ (Len(all_values) = 1 /\ IsBlankRow(all_values[1]))
                      THEN IF <<sh, "clear">> \in F
                           THEN [ws |-> ws, msg |-> "could_not_verify"]
                           ELSE IF <<sh, "append_row">> \in F
                           THEN [ws |-> clear(ws), msg |-> "could_not_verify"]
                           ELSE [ws |-> append_row(clear(ws), expected_headers(sh)),
                                 msg |-> "configured"]
                      ELSE [ws |-> ws, msg |-> "none"]
        ELSE IF current # expected_headers(sh)
             THEN [ws |-> ws, msg |-> "headers_differ"]
             ELSE [ws |-> ws, msg |-> "none"]

NoMsg == [sh \in SheetNames |-> "not_run"]

\* _ensure_sheet_structure: main, employee and store worksheet in turn; every
\* exception is caught inside, none reaches the caller.
ensure_sheet_structure(ss, F) ==
    LET r == [sh \in SheetNames |-> ensure_one(sh, ss[sh], F)]
    IN  [spreadsheet |-> [sh \in SheetNames |-> r[sh].ws],
         msg |-> [sh \in SheetNames |-> r[sh].msg],
         raised |-> FALSE]

\* ------------------------------------------------------------- lookup service
STORE_KEY == <<"Store_Name">>
EMPLOYEE_KEY == <<"Employee_Name">>

\* the loop "for record in records: if record.get(key, '').strip() == name.strip()"
ExistsInRecords(ws, key, name) ==
    \E i \in 1..NumRecords(ws) : strip(RecordGet(ws, i, key)) = strip(name)

\* sorted([s for s in df[key].dropna().unique().tolist() if s])
UniqueNames(ws, key) ==
    sorted({RecordGet(ws, i, key) : i \in 1..NumRecords(ws)} \ {<<>>})

\* get_stores_from_store_sheet; h: the handler, ss: the spreadsheet
get_stores_from_store_sheet(h, ss, F) ==
    IF ~h.store_worksheet THEN <<>>
    ELSE IF <<STORE, "get_all_records">> \in F THEN <<>>
    ELSE IF NumRecords(ss[STORE]) = 0 THEN <<>>
    ELSE IF HasColumn(ss[STORE], STORE_KEY) THEN UniqueNames(ss[STORE], STORE_KEY)
    ELSE <<>>

\* get_employee_data: <<stores, employees>>
get_employee_data(h, ss, F) ==
    LET stores == get_stores_from_store_sheet(h, ss, F)
    IN  IF ~h.employee_worksheet THEN <<stores, <<>>>>
        ELSE IF <<EMPLOYEE, "get_all_records">> \in F THEN << <<>>, <<>> >>
        ELSE IF NumRecords(ss[EMPLOYEE]) > 0 /\ HasColumn(ss[EMPLOYEE], EMPLOYEE_KEY)
             THEN <<stores, UniqueNames(ss[EMPLOYEE], EMPLOYEE_KEY)>>
             ELSE <<stores, <<>>>>

\* add_store_to_sheet reporting success when the sheet could not be read
add_store_read_failure_ok(h, ws, store_name, F) ==
    IF ~h.store_worksheet
    THEN [ok |-> FALSE, ws |-> ws, path |-> "no_worksheet",
          calls |-> <<>>]
    ELSE IF <<STORE, "get_all_records">> \in F
    THEN [ok |-> TRUE, ws |-> ws, path |-> "read_failed",
          calls |-> <<<<STORE, "get_all_records">>>>]
    ELSE IF ExistsInRecords(ws, STORE_KEY, store_name)
    THEN [ok |-> TRUE, ws |-> ws, path |-> "exists",
          calls |-> <<<<STORE, "get_all_records">>>>]
    ELSE IF <<STORE, "append_row">> \in F
    THEN [ok |-> FALSE, ws |-> ws, path |-> "append_failed",
          calls |-> <<<<STORE, "get_all_records">>, <<STORE, "append_row">>>>]
    ELSE [ok |-> TRUE, ws |-> append_row(ws, <<strip(store_name)>>), path |-> "appended",
          calls |-> <<<<STORE, "get_all_records">>, <<STORE, "append_row">>>>]

\* add_store_to_sheet: ok is the returned flag, ws the Store Sheet afterwards,
\* path names the return statement taken
add_store_to_sheet(h, ws, store_name, F) ==
    IF ~h.store_worksheet
    THEN [ok |-> FALSE, ws |-> ws, path |-> "no_worksheet",
          calls |-> <<>>]
    ELSE IF <<STORE, "get_all_records">> \in F
    THEN [ok |-> FALSE, ws |-> ws, path |-> "read_failed",
          calls |-> <<<<STORE, "get_all_records">>>>]
    ELSE IF ExistsInRecords(ws, STORE_KEY, store_name)
    THEN [ok |-> TRUE, ws |-> ws, path |-> "exists",
          calls |-> <<<<STORE, "get_all_records">>>>]
    ELSE IF <<STORE, "append_row">> \in F
    THEN [ok |-> FALSE, ws |-> ws, path |-> "append_failed",
          calls |-> <<<<STORE, "get_all_records">>, <<STORE, "append_row">>>>]
    ELSE [ok |-> TRUE, ws |-> append_row(ws, <<strip(store_name)>>), path |-> "appended",
          calls |-> <<<<STORE, "get_all_records">>, <<STORE, "append_row">>>>]

\* add_employee_to_sheet
add_employee_to_sheet(h, ws, employee_name, F) ==
    IF ~h.employee_worksheet
    THEN [ok |-> FALSE, ws |-> ws, path |-> "no_worksheet",
          calls |-> <<>>]
    ELSE IF <<EMPLOYEE, "get_all_records">> \in F
    THEN [ok |-> FALSE, ws |-> ws, path |-> "read_failed",
          calls |-> <<<<EMPLOYEE, "get_all_records">>>>]
    ELSE IF ExistsInRecords(ws, EMPLOYEE_KEY, employee_name)
    THEN [ok |-> TRUE, ws |-> ws, path |-> "exists",
          calls |-> <<<<EMPLOYEE, "get_all_records">>>>]
    ELSE IF <<EMPLOYEE, "append_row">> \in F
    THEN [ok |-> FALSE, ws |-> ws, path |-> "append_failed",
          calls |-> <<<<EMPLOYEE, "get_all_records">>, <<EMPLOYEE, "append_row">>>>]
    ELSE [ok |-> TRUE, ws |-> append_row(ws, <<strip(employee_name)>>),
          path |-> "appended",
          calls |-> <<<<EMPLOYEE, "get_all_records">>, <<EMPLOYEE, "append_row">>>>]

\* ------------------------------------------------------------- image upload
Alnum == {"1", "A", "B", "E", "J", "K", "a", "c", "e", "m", "n", "s", "t"}

RECURSIVE KeepPathChars(_)
KeepPathChars(s) ==
    IF s = <<>> THEN <<>>
    ELSE IF Head(s) \in Alnum \cup {" ", "-", "_"}
         THEN <<Head(s)>> \o KeepPathChars(Tail(s))
         ELSE KeepPathChars(Tail(s))

\* a cleaning that replaces the spaces before it trims
clean_name_replace_first(name) ==
    LET k == KeepPathChars(name)
    IN  strip([i \in 1..Len(k) |-> IF k[i] = " " THEN "_" ELSE k[i]])

\* "".join(c for c in name if c.isalnum() or c in (' ','-','_')).strip().replace(' ','_')
clean_name(name) ==
    LET t == strip(KeepPathChars(name))
    IN  [i \in 1..Len(t) |-> IF t[i] = " " THEN "_" ELSE t[i]]

BUCKET_NAME == "bucket"

image_path(store, employee, img_type, now, unique_id) ==
    <<"you-posm", "/">> \o clean_name(store) \o <<"/">> \o clean_name(employee)
        \o <<"/", now.date, "/", img_type, "/", now.time, "_", unique_id, ".jpg">>

public_url(path) == <<"https://storage.googleapis.com/", BUCKET_NAME, "/">> \o path

\* An image is its width, height and EXIF orientation tag.
MAX_DIM == 1920

\* ImageOps.exif_transpose: orientations 5 to 8 exchange width and height
exif_transpose(image) ==
    IF image.orientation \in 5..8
    THEN [w |-> image.h, h |-> image.w, orientation |-> 1]
    ELSE [w |-> image.w, h |-> image.h, orientation |-> 1]

\* int(x / y) for x >= 0, y > 0
IntDiv(x, y) == x \div y

\* (new_width, new_height) of the resize branch
new_size(w, h) ==
    IF w > h THEN <<MAX_DIM, IntDiv(MAX_DIM * h, w)>>
    ELSE <<IntDiv(MAX_DIM * w, h), MAX_DIM>>

\* the image as it is saved: transposed, then resized when a side exceeds
\* MAX_DIM; Image.resize raises for a size with a side below 1
process_image(image) ==
    LET t == exif_transpose(image)
    IN  IF t.w > MAX_DIM \/ t.h > MAX_DIM
        THEN LET n == new_size(t.w, t.h)
             IN  IF n[1] < 1 \/ n[2] < 1
                 THEN [raised |-> TRUE, w |-> t.w, h |-> t.h]
                 ELSE [raised |-> FALSE, w |-> n[1], h |-> n[2]]
        ELSE [raised |-> FALSE, w |-> t.w, h |-> t.h]

NoUrl == [url |-> <<>>, uploaded |-> 0, stored |-> <<>>, access |-> "none",
          acl_tried |-> FALSE, calls |-> <<>>]

\* the ACL grant tried whether or not make_public failed
grant_public_acl_always(img_type, F) ==
    [access |-> IF <<img_type, "make_public">> \notin F THEN "make_public"
                ELSE IF <<img_type, "acl_save">> \notin F THEN "acl"
                ELSE "private",
     acl_tried |-> TRUE,
     calls |-> <<<<img_type, "make_public">>, <<img_type, "acl_save">>>>]

\* the public-read grant on the uploaded object: make_public, and the ACL
\* grant only in the handler of a failed make_public; a failure of both is
\* swallowed
grant_public(img_type, F) ==
    [access |-> IF <<img_type, "make_public">> \notin F THEN "make_public"
                ELSE IF <<img_type, "acl_save">> \notin F THEN "acl"
                ELSE "private",
     acl_tried |-> <<img_type, "make_public">> \in F,
     calls |-> <<<<img_type, "make_public">>>>
               \o (IF <<img_type, "make_public">> \in F
                   THEN <<<<img_type, "acl_save">>>> ELSE <<>>)]

\* upload_image: url is the returned URL, <<>> standing for None; blobs the
\* bucket's objects afterwards; stored the saved image's size; access how the
\* object became readable.  The upload raises when the call fails or the
\* bucket does not exist.
upload_image(h, bucket_exists, blobs, image, store, employee, img_type, now, unique_id, F) ==
    LET path == image_path(store, employee, img_type, now, unique_id)
        p == process_image(image)
    IN  IF ~h.bucket
        THEN NoUrl @@ [blobs |-> blobs]
        ELSE IF p.raised
        THEN NoUrl @@ [blobs |-> blobs]
        ELSE IF <<img_type, "upload_from_file">> \in F \/ ~bucket_exists
        THEN [NoUrl EXCEPT !.calls = <<<<img_type, "upload_from_file">>>>]
                 @@ [blobs |-> blobs]
        ELSE LET g == grant_public(img_type, F)
             IN  [url |-> public_url(path), uploaded |-> 1, stored |-> <<p.w, p.h>>,
                  access |-> g.access, acl_tried |-> g.acl_tried,
                  calls |-> <<<<img_type, "upload_from_file">>>> \o g.calls,
                  blobs |-> blobs \cup {path}]

\* ------------------------------------------------------------- ledger
\* the row with the Date and Timestamp columns exchanged
row_data_reordered(data) ==
    <<data.store_name, data.employee_name, data.timestamp, data.before_image_url,
      data.after_image_url, data.date, data.status, data.notes>>

\* the list "row_data" of save_data
row_data(data) ==
    <<data.store_name, data.employee_name, data.date, data.before_image_url,
      data.after_image_url, data.timestamp, data.status, data.notes>>

\* save_data appending the row a second time
save_data_twice(h, ws, data, F) ==
    IF ~h.main_worksheet THEN [ok |-> FALSE, ws |-> ws, calls |-> <<>>]
    ELSE IF <<MAIN, "append_row">> \in F
    THEN [ok |-> FALSE, ws |-> ws, calls |-> <<<<MAIN, "append_row">>>>]
    ELSE [ok |-> TRUE, ws |-> append_row(append_row(ws, row_data(data)), row_data(data)),
          calls |-> <<<<MAIN, "append_row">>>>]

\* save_data
save_data(h, ws, data, F) ==
    IF ~h.main_worksheet THEN [ok |-> FALSE, ws |-> ws, calls |-> <<>>]
    ELSE IF <<MAIN, "append_row">> \in F
    THEN [ok |-> FALSE, ws |-> ws, calls |-> <<<<MAIN, "append_row">>>>]
    ELSE [ok |-> TRUE, ws |-> append_row(ws, row_data(data)),
          calls |-> <<<<MAIN, "append_row">>>>]

\* ------------------------------------------------------------- connection setup
NoHandler ==
    [created |-> FALSE, main_worksheet |-> FALSE, employee_worksheet |-> FALSE,
     store_worksheet |-> FALSE, bucket |-> FALSE, sheets |-> FALSE, storage |-> FALSE]

\* "try: spreadsheet.worksheet(title) except: add_worksheet(...); append_row([header])"
\* ok: no exception left the block; handle: the attribute was assigned
get_or_create(sh, ss, titles, F) ==
    IF sh \in titles /\ <<sh, "worksheet">> \notin F
    THEN [ok |-> TRUE, handle |-> TRUE, ss |-> ss, titles |-> titles]
    ELSE IF sh \in titles \/ <<sh, "add_worksheet">> \in F
    THEN [ok |-> FALSE, handle |-> FALSE, ss |-> ss, titles |-> titles]
    ELSE IF <<sh, "append_header">> \in F
    THEN [ok |-> FALSE, handle |-> TRUE,
          ss |-> [ss EXCEPT ![sh] = <<>>], titles |-> titles \cup {sh}]
    ELSE [ok |-> TRUE, handle |-> TRUE,
          ss |-> [ss EXCEPT ![sh] = append_row(<<>>, expected_headers(sh))],
          titles |-> titles \cup {sh}]

\* the "Setup Google Sheets" block of _setup_connections
setup_sheets(ss, titles, F) ==
    IF <<"", "open_by_key">> \in F
    THEN [sheets |-> FALSE, main |-> FALSE, employee |-> FALSE, store |-> FALSE,
          ss |-> ss, titles |-> titles, guard |-> FALSE, guard_pre |-> ss,
          raised |-> FALSE, msg |-> NoMsg]
    ELSE
    LET e == get_or_create(EMPLOYEE, ss, titles, F)
    IN  IF ~e.ok
        THEN [sheets |-> FALSE, main |-> TRUE, employee |-> e.handle, store |-> FALSE,
              ss |-> e.ss, titles |-> e.titles, guard |-> FALSE, guard_pre |-> e.ss,
              raised |-> FALSE, msg |-> NoMsg]
        ELSE
        LET t == get_or_create(STORE, e.ss, e.titles, F)
        IN  IF ~t.ok
            THEN [sheets |-> FALSE, main |-> TRUE, employee |-> TRUE,
                  store |-> t.handle, ss |-> t.ss, titles |-> t.titles,
                  guard |-> FALSE, guard_pre |-> t.ss, raised |-> FALSE, msg |-> NoMsg]
            ELSE
            LET g == ensure_sheet_structure(t.ss, F)
            IN  [sheets |-> ~g.raised, main |-> TRUE, employee |-> TRUE,
                 store |-> TRUE, ss |-> g.spreadsheet, titles |-> t.titles,
                 guard |-> TRUE, guard_pre |-> t.ss, raised |-> g.raised, msg |-> g.msg]

\* the "Setup Google Cloud Storage" block: the value of bucket.exists() is not used
setup_storage(bucket_exists, F) ==
    IF <<"", "storage_client">> \in F THEN [storage |-> FALSE, bucket |-> FALSE]
    ELSE IF <<"", "exists">> \in F THEN [storage |-> FALSE, bucket |-> TRUE]
    ELSE [storage |-> TRUE, bucket |-> TRUE]

\* a setup that gives up on storage once the sheets could not be connected
setup_connections_chained(cfg, ss, titles, bucket_exists, F) ==
    IF ~cfg.bucket_name \/ ~cfg.spreadsheet_id \/ ~cfg.creds
    THEN [handler |-> [NoHandler EXCEPT !.created = TRUE],
          ss |-> ss, titles |-> titles, guard |-> FALSE, guard_pre |-> ss,
          raised |-> FALSE, msg |-> NoMsg]
    ELSE
    LET sh == setup_sheets(ss, titles, F)
        st == IF sh.sheets THEN setup_storage(bucket_exists, F)
              ELSE [storage |-> FALSE, bucket |-> FALSE]
    IN  [handler |-> [created |-> TRUE, main_worksheet |-> sh.main,
                      employee_worksheet |-> sh.employee,
                      store_worksheet |-> sh.store, bucket |-> st.bucket,
                      sheets |-> sh.sheets, storage |-> st.storage],
         ss |-> sh.ss, titles |-> sh.titles,
         guard |-> sh.guard, guard_pre |-> sh.guard_pre, raised |-> sh.raised, msg |-> sh.msg]

\* a setup that connects whatever the configuration found allows
setup_connections_partial(cfg, ss, titles, bucket_exists, F) ==
    LET none == [sheets |-> FALSE, main |-> FALSE, employee |-> FALSE, store |-> FALSE,
                 ss |-> ss, titles |-> titles, guard |-> FALSE, guard_pre |-> ss,
                 raised |-> FALSE, msg |-> NoMsg]
        sh == IF cfg.creds /\ cfg.spreadsheet_id THEN setup_sheets(ss, titles, F)
              ELSE none
        st == IF cfg.creds /\ cfg.bucket_name THEN setup_storage(bucket_exists, F)
              ELSE [storage |-> FALSE, bucket |-> FALSE]
    IN  [handler |-> [created |-> TRUE, main_worksheet |-> sh.main,
                      employee_worksheet |-> sh.employee,
                      store_worksheet |-> sh.store, bucket |-> st.bucket,
                      sheets |-> sh.sheets, storage |-> st.storage],
         ss |-> sh.ss, titles |-> sh.titles,
         guard |-> sh.guard, guard_pre |-> sh.guard_pre, raised |-> sh.raised, msg |-> sh.msg]

\* YouPosmHandler.__init__ / _setup_connections; cfg: which of the three
\* configuration values were found
setup_connections(cfg, ss, titles, bucket_exists, F) ==
    IF ~cfg.bucket_name \/ ~cfg.spreadsheet_id \/ ~cfg.creds
    THEN [handler |-> [NoHandler EXCEPT !.created = TRUE],
          ss |-> ss, titles |-> titles, guard |-> FALSE, guard_pre |-> ss,
          raised |-> FALSE, msg |-> NoMsg]
    ELSE
    LET sh == setup_sheets(ss, titles, F)
        st == setup_storage(bucket_exists, F)
    IN  [handler |-> [created |-> TRUE, main_worksheet |-> sh.main,
                      employee_worksheet |-> sh.employee,
                      store_worksheet |-> sh.store, bucket |-> st.bucket,
                      sheets |-> sh.sheets, storage |-> st.storage],
         ss |-> sh.ss, titles |-> sh.titles,
         guard |-> sh.guard, guard_pre |-> sh.guard_pre, raised |-> sh.raised, msg |-> sh.msg]

\* ------------------------------------------------------------- form submission
SELECT_STORE == <<"Select Store...">>
NEW_STORE == <<"+ New Store">>
SELECT_EMPLOYEE == <<"Select Employee...">>
NEW_EMPLOYEE == <<"+ New Employee">>

store_options(stores) == <<SELECT_STORE>> \o stores \o <<NEW_STORE>>
employee_options(all_employees) ==
    IF Len(all_employees) > 0
    THEN <<SELECT_EMPLOYEE>> \o all_employees \o <<NEW_EMPLOYEE>>
    ELSE <<NEW_EMPLOYEE>>

store_name_of(inp) ==
    IF inp.store_selection = NEW_STORE THEN inp.new_store
    ELSE IF inp.store_selection # <<>> /\ inp.store_selection # SELECT_STORE
         THEN inp.store_selection
         ELSE <<>>

employee_name_of(inp) ==
    IF inp.employee_selection = NEW_EMPLOYEE THEN inp.new_employee
    ELSE IF inp.employee_selection # <<>> /\ inp.employee_selection # SELECT_EMPLOYEE
         THEN inp.employee_selection
         ELSE <<>>

\* the notes widget exists only when the box is not ticked
notes_of(inp) == IF ~inp.out_of_stock THEN inp.notes_input ELSE <<>>

Digit(d) == <<"0", "1", "2", "3", "4", "5", "6", "7", "8", "9">>[d + 1]
Pad2(n) == <<Digit((n \div 10) % 10), Digit(n % 10)>>
Pad4(n) == Pad2(n \div 100) \o Pad2(n % 100)
\* entry_date.strftime("%Y-%m-%d")
strftime_ymd(d) == Pad4(d.year) \o <<"-">> \o Pad2(d.month) \o <<"-">> \o Pad2(d.day)

\* validation that stops at the first missing field
validation_errors_fail_fast(inp) ==
    IF strip(store_name_of(inp)) = <<>> THEN <<"Store name is required">>
    ELSE IF strip(employee_name_of(inp)) = <<>> THEN <<"Employee name is required">>
    ELSE IF inp.before_image = "none" THEN <<"Before image is required">>
    ELSE IF inp.after_image = "none" THEN <<"After image is required">>
    ELSE <<>>

\* the "Validation" block: the messages, in the order they are appended
validation_errors(inp) ==
    (IF strip(store_name_of(inp)) = <<>> THEN <<"Store name is required">> ELSE <<>>)
    \o (IF strip(employee_name_of(inp)) = <<>>
        THEN <<"Employee name is required">> ELSE <<>>)
    \o (IF inp.before_image = "none" THEN <<"Before image is required">> ELSE <<>>)
    \o (IF inp.after_image = "none" THEN <<"After image is required">> ELSE <<>>)

\* "if before_url or after_url"
EitherUrl(before_url, after_url) == before_url # <<>> \/ after_url # <<>>

\* "if before_url and after_url"
BothUrls(before_url, after_url) == before_url # <<>> /\ after_url # <<>>

\* final notes that keep a typed note when there is one
final_notes_typed_first(inp) ==
    IF strip(inp.notes_input) # <<>> THEN strip(inp.notes_input)
    ELSE IF inp.out_of_stock THEN <<"Out of Stock">> ELSE <<>>

\* final_notes
final_notes_of(inp) ==
    IF inp.out_of_stock THEN <<"Out of Stock">> ELSE strip(notes_of(inp))

visit_data(inp, before_url, after_url, now) ==
    [store_name |-> strip(store_name_of(inp)),
     employee_name |-> strip(employee_name_of(inp)),
     date |-> strftime_ymd(inp.entry_date),
     before_image_url |-> before_url,
     after_image_url |-> after_url,
     timestamp |-> <<now.stamp>>,
     status |-> <<"Visited">>,
     notes |-> final_notes_of(inp)]

NoRow == <<>>

\* Image.open of an uploaded file that decodes: a landscape photo larger than
\* MAX_DIM, or a strip one pixel high
ImageOf(file) ==
    IF file = "strip" THEN [w |-> 3000, h |-> 1, orientation |-> 1]
    ELSE [w |-> 3840, h |-> 2160, orientation |-> 1]

\* what a run of the "if submitted:" block leaves behind; calls: the external
\* calls it issued, in the order it issued them
Outcome(outcome, errors, ss, blobs, uploaded, sadd, eadd, burl, aurl, row, calls) ==
    [outcome |-> outcome, errors |-> errors, ss |-> ss, blobs |-> blobs,
     uploaded |-> uploaded, store_add |-> sadd, employee_add |-> eadd,
     before_url |-> burl, after_url |-> aurl, row |-> row, calls |-> calls]

\* an add_*_to_sheet call that was not made
NotCalled == [called |-> FALSE, ok |-> TRUE, path |-> "skipped"]
Called(r) == [called |-> TRUE, ok |-> r.ok, path |-> r.path]

\* a statement issues its calls before those of the statements that follow it
IssueBefore(log, calls) == calls \o log

\* a statement issues its calls after those of the statements before it
Issue(log, calls) == log \o calls

\* a submission that goes on whatever an insert returned
goes_on_regardless(success) == TRUE

\* "if not success: st.error(...); st.stop()": the run goes on only after an
\* insert that returned True
goes_on(success) == success

\* the "if submitted:" block of main(): h the session's handler, ss the
\* spreadsheet, blobs the bucket's objects, inp the widget values
submit(h, ss, bucket_exists, blobs, inp, now, unique_id, F) ==
    LET errors == validation_errors(inp)
        store_name == store_name_of(inp)
        employee_name == employee_name_of(inp)
    IN
    IF errors # <<>>
    THEN Outcome("invalid", errors, ss, blobs, 0, NotCalled, NotCalled, <<>>, <<>>,
                 NoRow, <<>>)
    ELSE IF inp.before_image = "corrupt" \/ inp.after_image = "corrupt"
    THEN Outcome("exception", errors, ss, blobs, 0, NotCalled, NotCalled, <<>>, <<>>,
                 NoRow, <<>>)
    ELSE
    LET sa == IF inp.store_selection = NEW_STORE
              THEN add_store_to_sheet(h, ss[STORE], store_name, F)
              ELSE [ok |-> TRUE, ws |-> ss[STORE], path |-> "skipped", calls |-> <<>>]
        ss1 == [ss EXCEPT ![STORE] = sa.ws]
        SA == IF inp.store_selection = NEW_STORE THEN Called(sa) ELSE NotCalled
        log1 == Issue(<<>>, sa.calls)
    IN
    IF ~goes_on(sa.ok)
    THEN Outcome("stopped", errors, ss1, blobs, 0, SA, NotCalled, <<>>, <<>>, NoRow, log1)
    ELSE
    LET ea == IF inp.employee_selection = NEW_EMPLOYEE
              THEN add_employee_to_sheet(h, ss1[EMPLOYEE], employee_name, F)
              ELSE [ok |-> TRUE, ws |-> ss1[EMPLOYEE], path |-> "skipped",
                    calls |-> <<>>]
        ss2 == [ss1 EXCEPT ![EMPLOYEE] = ea.ws]
        EA == IF inp.employee_selection = NEW_EMPLOYEE THEN Called(ea) ELSE NotCalled
        log2 == Issue(log1, ea.calls)
    IN
    IF ~goes_on(ea.ok)
    THEN Outcome("stopped", errors, ss2, blobs, 0, SA, EA, <<>>, <<>>, NoRow, log2)
    ELSE
    LET b == upload_image(h, bucket_exists, blobs, ImageOf(inp.before_image),
                          store_name, employee_name, "before", now, unique_id, F)
        a == upload_image(h, bucket_exists, b.blobs, ImageOf(inp.after_image),
                          store_name, employee_name, "after", now, unique_id, F)
        n == b.uploaded + a.uploaded
        log4 == Issue(Issue(log2, b.calls), a.calls)
    IN
    IF ~BothUrls(b.url, a.url)
    THEN Outcome("upload_failed", errors, ss2, a.blobs, n, SA, EA,
                 b.url, a.url, NoRow, log4)
    ELSE
    LET data == visit_data(inp, b.url, a.url, now)
        sv == save_data(h, ss2[MAIN], data, F)
        ss3 == [ss2 EXCEPT ![MAIN] = sv.ws]
        log5 == Issue(log4, sv.calls)
    IN
    IF sv.ok
    THEN Outcome("success", errors, ss3, a.blobs, n, SA, EA,
                 b.url, a.url, row_data(data), log5)
    ELSE Outcome("save_failed", errors, ss3, a.blobs, n, SA, EA,
                 b.url, a.url, NoRow, log5)

\* ------------------------------------------------------------- state
VARIABLES
    spreadsheet,    \* worksheet title -> rows (<<>> for a title that does not exist)
    titles,         \* the worksheet titles that exist in the spreadsheet
    bucket_exists,  \* whether the configured bucket exists
    blobs,          \* the object paths stored in the bucket
    handler,        \* st.session_state.handler of the session being served
    sessions,       \* sessions started so far
    submissions,    \* form submissions processed so far
    appended,       \* the rows save_data has appended to the ledger
    prev_add,       \* lookup sheet -> the latest add_*_to_sheet call on it
    guard_runs,     \* the guard runs since the last other write, and the
                    \* spreadsheet before the first of them
    last,           \* the script run that has just ended
    upload_call,    \* a call of upload_image taken on its own: its arguments,
                    \* then its result
    race,           \* two sessions inside add_store_to_sheet (or
                    \* add_employee_to_sheet) at once: where each one is,
                    \* and the records it read
    config_call,    \* the configuration sources of one _setup_connections
                    \* call taken on its own, then what it resolved
    guard_race      \* one session inside _ensure_sheet_structure while
                    \* another writes to the same worksheet

vars == <<spreadsheet, titles, bucket_exists, blobs, handler, sessions, submissions,
          appended, prev_add, guard_runs, last, upload_call, race, config_call,
          guard_race>>

\* ------------------------------------------------------------- initial sheets
BlankRow(n) == [i \in 1..n |-> <<>>]
OldRow ==
    << <<"B">>, <<"K">>, <<"2", "0", "2", "4", "-", "0", "4", "-", "3", "0">>,
       <<"https://storage.googleapis.com/", "old-before">>,
       <<"https://storage.googleapis.com/", "old-after">>,
       <<"2024-04-30 09:00:00">>, <<"Visited">>, <<>> >>
OldHeaders ==
    << <<"Store_Name">>, <<"Employee_Name">>, <<"Date">>, <<"Before_Image_URL">>,
       <<"After_Image_URL">>, <<"Timestamp">>, <<"Status">> >>

Sheets(m, e, t) == (MAIN :> m) @@ (EMPLOYEE :> e) @@ (STORE :> t)
EmptySpreadsheet == Sheets(<<>>, <<>>, <<>>)

InUse ==
    Sheets(<<main_expected_headers, OldRow>>,
           << <<EMPLOYEE_KEY>>, << <<"K">> >> >>,
           << <<STORE_KEY>>, << <<"B">> >> >>)

\* The spreadsheets a session can find: new; without a header row; in use
\* with the expected headers; made by an earlier revision (other headers);
\* edited by hand (duplicates, blank cells, padded names); first row blank.
InitialSpreadsheets ==
    { [ss |-> EmptySpreadsheet, titles |-> {MAIN}],
      [ss |-> Sheets(<<BlankRow(8)>>, <<>>, <<BlankRow(1), << <<"B">> >> >>),
       titles |-> SheetNames],
      [ss |-> InUse, titles |-> SheetNames],
      [ss |-> Sheets(<<OldHeaders, SubSeq(OldRow, 1, 7)>>,
                     << << <<"Name">> >>, << <<"K">> >> >>,
                     << << <<"Name">> >>, << <<"B">> >> >>),
       titles |-> SheetNames],
      [ss |-> Sheets(<<main_expected_headers>>,
                     << <<EMPLOYEE_KEY>>, << <<"K">> >>, << <<>> >>, << <<"J", " ">> >>,
                        << <<"K">> >> >>,
                     << <<STORE_KEY>>, << <<"B">> >>, << <<" ", "A">> >>, << <<" ">> >>,
                        << <<"A">> >>, << <<"B">> >> >>),
       titles |-> SheetNames],
      [ss |-> Sheets(<<BlankRow(8), OldRow>>,
                     << BlankRow(1), << <<"K">> >> >>,
                     << BlankRow(1), << <<"B">> >> >>),
       titles |-> SheetNames] }

NoUploadCall == [phase |-> "none"]
NoRace == [phase |-> "none"]
NoConfigCall == [phase |-> "none"]
NoGuardRace == [phase |-> "none"]
NoAdd == [called |-> FALSE, name |-> <<>>, ok |-> FALSE, pre |-> <<>>, post |-> <<>>]
Idle == [op |-> "idle"]

Init ==
    /\ \E i \in InitialSpreadsheets :
          /\ spreadsheet = i.ss
          /\ titles = i.titles
          /\ bucket_exists \in (IF i.ss = InUse THEN BOOLEAN ELSE {TRUE})
    /\ blobs = {}
    /\ handler = NoHandler
    /\ sessions = 1
    /\ submissions = 0
    /\ appended = <<>>
    /\ prev_add = (STORE :> NoAdd) @@ (EMPLOYEE :> NoAdd)
    /\ guard_runs = [n |-> 0, first |-> EmptySpreadsheet]
    /\ last = Idle
    /\ upload_call = NoUploadCall
    /\ race = NoRace
    /\ config_call = NoConfigCall
    /\ guard_race = NoGuardRace

\* ------------------------------------------------------------- inputs
Configs ==
    { [bucket_name |-> TRUE, spreadsheet_id |-> TRUE, creds |-> TRUE],
      [bucket_name |-> FALSE, spreadsheet_id |-> TRUE, creds |-> TRUE],
      [bucket_name |-> TRUE, spreadsheet_id |-> FALSE, creds |-> TRUE],
      [bucket_name |-> TRUE, spreadsheet_id |-> TRUE, creds |-> FALSE] }

RenderFaults == {<<STORE, "get_all_records">>, <<EMPLOYEE, "get_all_records">>}
SubmitFaults == {<<STORE, "get_all_records">>, <<STORE, "append_row">>,
                 <<EMPLOYEE, "get_all_records">>, <<EMPLOYEE, "append_row">>,
                 <<"before", "upload_from_file">>, <<"after", "upload_from_file">>,
                 <<MAIN, "append_row">>}

TypedStores == { <<" ">>, <<"A">>, <<"A", " ">> }
TypedEmployees == { <<>>, <<" ", "J">> }
\* the photo and notes part of a form: every photo combination with no notes,
\* and every notes case with two good photos
MediaCases ==
    { [before_image |-> b, after_image |-> a, out_of_stock |-> FALSE,
       notes_input |-> <<>>] :
          <<b, a>> \in ({"none", "valid"} \X {"none", "valid"})
                          \cup {<<"corrupt", "valid">>, <<"valid", "corrupt">>,
                                <<"valid", "strip">>} }
    \cup { [before_image |-> "valid", after_image |-> "valid", out_of_stock |-> FALSE,
            notes_input |-> <<" ", "n">>],
           [before_image |-> "valid", after_image |-> "valid", out_of_stock |-> TRUE,
            notes_input |-> <<>>],
           [before_image |-> "valid", after_image |-> "valid", out_of_stock |-> TRUE,
            notes_input |-> <<" ", "n">>] }
EntryDates == { [year |-> 2024, month |-> 5, day |-> 1] }
Clock == { [date |-> "2024-05-01", time |-> "101500", stamp |-> "2024-05-01 10:15:00"] }
UniqueIds == { "1a2b3c4d" }

\* the widget values a user can submit when the form shows these options; the
\* text input for a new name exists only under the "+ New ..." option
StoreChoices(stores) ==
    { [sel |-> x, typed |-> <<>>] : x \in Range(store_options(stores)) \ {NEW_STORE} }
        \cup { [sel |-> NEW_STORE, typed |-> t] : t \in TypedStores }
EmployeeChoices(all_employees) ==
    { [sel |-> x, typed |-> <<>>] :
          x \in Range(employee_options(all_employees)) \ {NEW_EMPLOYEE} }
        \cup { [sel |-> NEW_EMPLOYEE, typed |-> t] : t \in TypedEmployees }

Form(sc, ec, d, mc) ==
    [store_selection |-> sc.sel, new_store |-> sc.typed,
     employee_selection |-> ec.sel, new_employee |-> ec.typed,
     entry_date |-> d, out_of_stock |-> mc.out_of_stock,
     notes_input |-> mc.notes_input,
     before_image |-> mc.before_image, after_image |-> mc.after_image]

GoodMedia ==
    [before_image |-> "valid", after_image |-> "valid", out_of_stock |-> FALSE,
     notes_input |-> <<>>]

\* every choice of names with two good photos, and every photo and notes case
\* with the store and the employee each given, blank or missing
Forms(stores, all_employees) ==
    { Form(sc, ec, d, GoodMedia) :
        sc \in StoreChoices(stores), ec \in EmployeeChoices(all_employees),
        d \in EntryDates }
    \cup
    { Form(sc, ec, d, mc) :
        sc \in { [sel |-> SELECT_STORE, typed |-> <<>>],
                 [sel |-> NEW_STORE, typed |-> <<" ">>],
                 [sel |-> NEW_STORE, typed |-> <<"A", " ">>] },
        ec \in { [sel |-> NEW_EMPLOYEE, typed |-> <<>>],
                 [sel |-> NEW_EMPLOYEE, typed |-> <<" ", "J">>] },
        d \in EntryDates, mc \in MediaCases }

\* the fields of a form that are missing: a name with no character other than
\* a space, a photo that was not chosen
HasText(t) == \E i \in 1..Len(t) : t[i] # " "
EnteredStore(inp) ==
    IF inp.store_selection = NEW_STORE THEN inp.new_store
    ELSE IF inp.store_selection = SELECT_STORE THEN <<>> ELSE inp.store_selection
EnteredEmployee(inp) ==
    IF inp.employee_selection = NEW_EMPLOYEE THEN inp.new_employee
    ELSE IF inp.employee_selection = SELECT_EMPLOYEE THEN <<>>
    ELSE inp.employee_selection
Missing(inp) ==
    (IF HasText(EnteredStore(inp)) THEN {} ELSE {"Store name is required"})
    \cup (IF HasText(EnteredEmployee(inp)) THEN {} ELSE {"Employee name is required"})
    \cup (IF inp.before_image # "none" THEN {} ELSE {"Before image is required"})
    \cup (IF inp.after_image # "none" THEN {} ELSE {"After image is required"})

\* the calls that can fail while a form is processed; a form with a missing
\* field is considered with every call working
SubmitFaultSets(inp) ==
    IF Missing(inp) = {} THEN FaultSets(SubmitFaults) ELSE {{}}

\* ------------------------------------------------------------- actions
\* Sessions are served one at a time; handler is st.session_state.handler of
\* the session being served.
\* a readiness test that one connection is enough to pass
ReadyWithEither == handler.created /\ (handler.sheets \/ handler.storage)

\* the test before st.stop(): both flags of the session's handler
Ready == handler.created /\ handler.sheets /\ handler.storage

NoGuardRuns == [n |-> 0, first |-> EmptySpreadsheet]

\* first script run of a session: "if 'handler' not in st.session_state"
CreateHandler ==
    /\ UNCHANGED <<upload_call, race, config_call, guard_race>>
    /\ last = Idle
    /\ ~handler.created
    /\ \E cfg \in Configs, F \in SetupFaultSets :
          LET r == setup_connections(cfg, spreadsheet, titles, bucket_exists, F)
          IN  /\ handler' = r.handler
              /\ spreadsheet' = r.ss
              /\ titles' = r.titles
              /\ guard_runs' =
                    IF r.guard
                    THEN IF guard_runs.n > 0 /\ r.guard_pre = spreadsheet
                         THEN [guard_runs EXCEPT !.n = @ + 1]
                         ELSE [n |-> 1, first |-> r.guard_pre]
                    ELSE IF r.ss # spreadsheet THEN NoGuardRuns ELSE guard_runs
              /\ last' = [op |-> "create", cfg |-> cfg, pre |-> spreadsheet,
                          guard |-> r.guard, guard_pre |-> r.guard_pre,
                          raised |-> r.raised, msg |-> r.msg, faults |-> F,
                          pre_titles |-> titles]
    /\ UNCHANGED <<bucket_exists, blobs, sessions, submissions, appended, prev_add>>

\* the session ends (the page is closed or reloaded); the next one starts
\* with an empty st.session_state
NewSession ==
    /\ UNCHANGED <<upload_call, race, config_call, guard_race>>
    /\ last = Idle
    /\ handler.created
    /\ sessions < MaxSessions
    /\ sessions' = sessions + 1
    /\ handler' = NoHandler
    /\ UNCHANGED <<spreadsheet, titles, bucket_exists, blobs, submissions,
                   appended, prev_add, guard_runs, last>>

\* a script run that shows the form and is not a submission
Render ==
    /\ UNCHANGED <<upload_call, race, config_call, guard_race>>
    /\ last = Idle
    /\ Ready
    /\ \E F \in FaultSets(RenderFaults) :
          LET d == get_employee_data(handler, spreadsheet, F)
          IN  last' = [op |-> "render", stores |-> d[1], all_employees |-> d[2],
                       pre |-> spreadsheet]
    /\ UNCHANGED <<spreadsheet, titles, bucket_exists, blobs, handler, sessions,
                   submissions, appended, prev_add, guard_runs>>

AddCall(name, ok, pre, post) ==
    [called |-> TRUE, name |-> name, ok |-> ok, pre |-> pre, post |-> post]

\* the rows of post that follow the rows pre held
NewRows(pre, post) ==
    LET n == Len(DropTrailingBlankRows(pre))
    IN  IF post = pre \/ Len(post) <= n THEN <<>>
        ELSE SubSeq(post, n + 1, Len(post))

\* a script run with the submit button pressed
Submit ==
    /\ UNCHANGED <<upload_call, race, config_call, guard_race>>
    /\ last = Idle
    /\ Ready
    /\ submissions < MaxSubmissions
    /\ LET d == get_employee_data(handler, spreadsheet, {})
       IN  \E inp \in Forms(d[1], d[2]), now \in Clock, unique_id \in UniqueIds :
           \E F \in SubmitFaultSets(inp) :
              \E r \in {submit(handler, spreadsheet, bucket_exists, blobs, inp,
                              now, unique_id, F)} :
                  /\ spreadsheet' = r.ss
                  /\ blobs' = r.blobs
                  /\ appended' = appended \o NewRows(spreadsheet[MAIN], r.ss[MAIN])
                  /\ prev_add' =
                        [sh \in {STORE, EMPLOYEE} |->
                            LET c == IF sh = STORE THEN r.store_add
                                     ELSE r.employee_add
                                name == IF sh = STORE THEN store_name_of(inp)
                                        ELSE employee_name_of(inp)
                            IN  IF ~c.called THEN prev_add[sh]
                                ELSE AddCall(name, c.ok, spreadsheet[sh], r.ss[sh])]
                  /\ guard_runs' = IF r.ss # spreadsheet THEN NoGuardRuns
                                   ELSE guard_runs
                  /\ last' = [op |-> "submit", inp |-> inp, pre |-> spreadsheet,
                              pre_blobs |-> blobs, pre_add |-> prev_add,
                              res |-> r, now |-> now, faults |-> F]
    /\ submissions' = submissions + 1
    /\ UNCHANGED <<titles, bucket_exists, handler, sessions>>

\* a script run that an exception raised while processing the submission
\* brings down instead of being reported
EndRunUnlessRaised ==
    /\ UNCHANGED <<upload_call, race, config_call, guard_race>>
    /\ last # Idle
    /\ ~(last.op = "submit" /\ last.res.outcome = "exception")
    /\ last' = Idle
    /\ UNCHANGED <<spreadsheet, titles, bucket_exists, blobs, handler, sessions,
                   submissions, appended, prev_add, guard_runs>>

\* the script run is over and the page waits for the next interaction
EndRun ==
    /\ UNCHANGED <<upload_call, race, config_call, guard_race>>
    /\ last # Idle
    /\ last' = Idle
    /\ UNCHANGED <<spreadsheet, titles, bucket_exists, blobs, handler, sessions,
                   submissions, appended, prev_add, guard_runs>>

Next ==
    \/ CreateHandler
    \/ NewSession
    \/ Render
    \/ Submit
    \/ EndRun

Spec == Init /\ [][Next]_vars

\* A script run is straight-line code over calls that return or raise, so a
\* run that has started comes to its end.
LiveSpec == Spec /\ WF_vars(EndRun)

\* ------------------------------------------------------------- upload_image alone
\* upload_image called on a connected handler with any image, names and
\* failing calls; the worksheets play no part.
ImageSides == {1, 2, 600, 800, 1919, 1920, 1921, 2160, 3840, 3841}
Images == [w : ImageSides, h : ImageSides, orientation : {1, 6}]
ACME == <<"A", "c", "m", "e", " ", "#", "1", " ", "(", "E", "a", "s", "t", ")">>
PathNames ==
    { ACME, <<"J">>, <<" ", "#", "A", " ", " ", "B", "#", " ">>,
      <<"A", "-", "B", "_", "1">>, <<"#">> }
PathEmployees == { <<"J">>, <<"(", "K", " ", "-", "n", " ">> }
UploadFaults(img_type) ==
    { <<img_type, "upload_from_file">>, <<img_type, "make_public">>,
      <<img_type, "acl_save">> }
Connected ==
    [created |-> TRUE, main_worksheet |-> TRUE, employee_worksheet |-> TRUE,
     store_worksheet |-> TRUE, bucket |-> TRUE, sheets |-> TRUE, storage |-> TRUE]

UploadInit ==
    /\ spreadsheet = InUse
    /\ titles = SheetNames
    /\ bucket_exists = TRUE
    /\ blobs = {}
    /\ handler = Connected
    /\ sessions = 1
    /\ submissions = 0
    /\ appended = <<>>
    /\ prev_add = (STORE :> NoAdd) @@ (EMPLOYEE :> NoAdd)
    /\ guard_runs = NoGuardRuns
    /\ last = Idle
    /\ race = NoRace
    /\ config_call = NoConfigCall
    /\ guard_race = NoGuardRace
    /\ \E image \in Images, store \in PathNames, employee \in PathEmployees,
          img_type \in {"before", "after"} :
          \E F \in SUBSET UploadFaults(img_type) :
              upload_call = [phase |-> "called", image |-> image, store |-> store,
                             employee |-> employee, img_type |-> img_type,
                             faults |-> F]

\* the call returns
UploadImage ==
    /\ upload_call.phase = "called"
    /\ \E now \in Clock, unique_id \in UniqueIds :
          LET r == upload_image(handler, bucket_exists, blobs, upload_call.image,
                                upload_call.store, upload_call.employee,
                                upload_call.img_type, now, unique_id,
                                upload_call.faults)
          IN  /\ blobs' = r.blobs
              /\ upload_call' = [phase |-> "returned", image |-> upload_call.image,
                                 store |-> upload_call.store,
                                 employee |-> upload_call.employee,
                                 img_type |-> upload_call.img_type,
                                 faults |-> upload_call.faults, now |-> now,
                                 unique_id |-> unique_id, res |-> r]
    /\ UNCHANGED <<spreadsheet, titles, bucket_exists, handler, sessions, submissions,
                   appended, prev_add, guard_runs, last, race, config_call,
                   guard_race>>

UploadNext == UploadImage

UploadSpec == UploadInit /\ [][UploadNext]_vars

\* ------------------------------------------------------------- properties
\* the rows of a worksheet that hold data, in order
DataRows(ws) == SelectSeq(ws, LAMBDA row : ~IsBlankRow(row))

Submitted == last.op = "submit"
Created == last.op = "create"
Rendered == last.op = "render"

\* C1: a submission with a missing store name, employee name, before image or
\* after image reports exactly the missing fields, all together, and writes
\* nothing: the three worksheets and the bucket are as before.
C1_InvalidSubmissionWritesNothing ==
    (Submitted /\ Missing(last.inp) # {}) =>
        /\ last.res.outcome = "invalid"
        /\ Range(last.res.errors) = Missing(last.inp)
        /\ Len(last.res.errors) = Cardinality(Missing(last.inp))
        /\ spreadsheet = last.pre
        /\ blobs = last.pre_blobs
        /\ last.res.uploaded = 0

C1_Witness ==
    /\ Submitted
    /\ last.inp.store_selection = NEW_STORE
    /\ last.inp.new_store = <<" ">>
    /\ last.inp.after_image = "none"
    /\ last.inp.before_image = "valid"
    /\ Len(last.res.errors) = 2
    /\ Len(DataRows(last.pre[STORE])) > 1

\* C2: a successful submission adds exactly one row to the ledger, after the
\* rows it held, and both URL columns of that row are filled.
C2_SuccessAppendsOneRow ==
    (Submitted /\ last.res.outcome = "success") =>
        LET post == spreadsheet[MAIN]
            row == post[Len(post)]
        IN  /\ Len(post) > 0
            /\ DataRows(post) = Append(DataRows(last.pre[MAIN]), row)
            /\ Len(row) = 8
            /\ row[4] # <<>>
            /\ row[5] # <<>>

C2_Witness ==
    /\ Submitted
    /\ last.res.outcome = "success"
    /\ Len(DataRows(last.pre[MAIN])) >= 2
    /\ Len(DataRows(spreadsheet[MAIN])) = Len(DataRows(last.pre[MAIN])) + 1

\* C3: every row the system has written to the ledger carries both image URLs,
\* and a submission in which an upload returned no URL leaves the ledger as
\* it was.
C3_NoPartialRecord ==
    /\ \A i \in 1..Len(appended) :
          /\ Len(appended[i]) = 8
          /\ appended[i][4] # <<>>
          /\ appended[i][5] # <<>>
    /\ (Submitted /\ (last.res.before_url = <<>> \/ last.res.after_url = <<>>)) =>
          /\ spreadsheet[MAIN] = last.pre[MAIN]
          /\ last.res.outcome # "success"

C3_Witness ==
    /\ Submitted
    /\ last.res.before_url # <<>>
    /\ last.res.after_url = <<>>
    /\ last.res.uploaded = 1
    /\ Len(appended) = 1
    /\ spreadsheet[MAIN] = last.pre[MAIN]

\* a worksheet without data: no rows, or one row of blank cells
NoData(ws) == ws = <<>> \/ (Len(ws) = 1 /\ IsBlankRow(ws[1]))

GuardRan == Created /\ last.guard

\* the guard's calls on worksheet sh that failed in the run just ended
GuardFaults(sh) == {f \in last.faults : f[1] = sh}

\* C4: running the guard twice in succession leaves every worksheet that held
\* rows before the first run exactly as it was, and no run of the guard
\* raises to its caller.
C4_GuardIdempotent ==
    /\ guard_runs.n >= 1 =>
          \A sh \in SheetNames :
              DataRows(guard_runs.first[sh]) # <<>> =>
                  spreadsheet[sh] = guard_runs.first[sh]
    /\ GuardRan => ~last.raised

C4_Witness ==
    /\ GuardRan
    /\ guard_runs.n = 2
    /\ \A sh \in SheetNames : DataRows(guard_runs.first[sh]) # <<>>
    /\ \E sh \in SheetNames : row_values(guard_runs.first[sh]) = <<>>
    /\ spreadsheet = guard_runs.first

\* C5: a worksheet whose first row is non-empty and differs from the expected
\* headers is not written by the guard: its contents are unchanged, and the
\* guard warns that the headers differ whenever it could read the row.
C5_MismatchNotWritten ==
    GuardRan =>
        \A sh \in SheetNames :
            LET pre == last.guard_pre[sh]
            IN  (row_values(pre) # <<>> /\ row_values(pre) # expected_headers(sh)) =>
                    /\ spreadsheet[sh] = pre
                    /\ last.msg[sh] # "configured"
                    /\ (<<sh, "row_values">> \notin last.faults =>
                            last.msg[sh] = "headers_differ")

C5_Witness ==
    /\ GuardRan
    /\ last.faults = {}
    /\ \A sh \in SheetNames :
          /\ row_values(last.guard_pre[sh]) # <<>>
          /\ row_values(last.guard_pre[sh]) # expected_headers(sh)
          /\ last.msg[sh] = "headers_differ"
          /\ Len(spreadsheet[sh]) >= 2

\* C6: when the guard's calls succeed, a worksheet without data ends up holding
\* the expected headers as its only row; a worksheet whose first row is empty
\* while rows with data follow is neither cleared nor written.
C6_HeaderWrittenOnlyWhenEmpty ==
    GuardRan =>
        \A sh \in SheetNames :
            LET pre == last.guard_pre[sh]
            IN  /\ (NoData(pre) /\ GuardFaults(sh) \subseteq {<<sh, "row_values">>}) =>
                      /\ spreadsheet[sh] = <<expected_headers(sh)>>
                      /\ last.msg[sh] = "configured"
                /\ (row_values(pre) = <<>> /\ DataRows(pre) # <<>>) =>
                      /\ spreadsheet[sh] = pre
                      /\ last.msg[sh] # "configured"

C6_Witness ==
    /\ GuardRan
    /\ last.faults = {}
    /\ last.guard_pre[MAIN] = <<BlankRow(8)>>
    /\ last.guard_pre[EMPLOYEE] = <<>>
    /\ row_values(last.guard_pre[STORE]) = <<>>
    /\ DataRows(last.guard_pre[STORE]) # <<>>
    /\ spreadsheet[MAIN] = <<main_expected_headers>>
    /\ spreadsheet[EMPLOYEE] = <<employee_expected_headers>>
    /\ spreadsheet[STORE] = last.guard_pre[STORE]

\* the rows of a lookup sheet whose trimmed text is the trimmed name
RowsNamed(ws, name) ==
    {i \in 1..Len(ws) : Len(ws[i]) >= 1 /\ strip(ws[i][1]) = strip(name)}

\* the call of add_store_to_sheet / add_employee_to_sheet in the run just
\* ended, and the name it was given
AddOf(sh) == IF sh = STORE THEN last.res.store_add ELSE last.res.employee_add
NameOf(sh) ==
    IF sh = STORE THEN store_name_of(last.inp) ELSE employee_name_of(last.inp)
KeyOf(sh) == IF sh = STORE THEN STORE_KEY ELSE EMPLOYEE_KEY
HandleOf(sh) ==
    IF sh = STORE THEN handler.store_worksheet ELSE handler.employee_worksheet

\* C7: two calls of add_store_to_sheet (add_employee_to_sheet) in succession
\* with the same name, both returning true and no other writer in between,
\* leave exactly one row with that trimmed name; the second call appends
\* nothing.
C7_AddTwiceOneRow ==
    Submitted =>
        \A sh \in {STORE, EMPLOYEE} :
            LET first == last.pre_add[sh]
            IN  ( /\ AddOf(sh).called /\ AddOf(sh).ok
                  /\ first.called /\ first.ok
                  /\ strip(first.name) = strip(NameOf(sh))
                  /\ first.post = last.pre[sh]
                  /\ Cardinality(RowsNamed(first.pre, NameOf(sh))) <= 1 ) =>
                      /\ spreadsheet[sh] = last.pre[sh]
                      /\ Cardinality(RowsNamed(spreadsheet[sh], NameOf(sh))) = 1

\* C8 as stated: add_store_to_sheet (add_employee_to_sheet) returns false only
\* when the append to the lookup sheet was attempted and failed.
C8_FalseOnlyOnAppendFailure ==
    Submitted =>
        \A sh \in {STORE, EMPLOYEE} :
            (AddOf(sh).called /\ ~AddOf(sh).ok) =>
                /\ <<sh, "append_row">> \in last.faults
                /\ <<sh, "get_all_records">> \notin last.faults
                /\ HandleOf(sh)

\* C8: add_store_to_sheet (add_employee_to_sheet) returns true exactly when
\* the name is found among the records or the append succeeds; it returns
\* false when the worksheet handle is missing, when reading the records fails
\* and when the append fails, and it writes only in the case of a successful
\* append.
C8_AddResult ==
    Submitted =>
        \A sh \in {STORE, EMPLOYEE} :
            AddOf(sh).called =>
                LET pre == last.pre[sh]
                    readable == HandleOf(sh) /\ <<sh, "get_all_records">> \notin last.faults
                    present == ExistsInRecords(pre, KeyOf(sh), NameOf(sh))
                    written == <<sh, "append_row">> \notin last.faults
                IN  /\ AddOf(sh).ok = (readable /\ (present \/ written))
                    /\ spreadsheet[sh] =
                          IF readable /\ ~present /\ written
                          THEN append_row(pre, <<strip(NameOf(sh))>>)
                          ELSE pre

C8_Witness ==
    /\ Submitted
    /\ AddOf(STORE).called
    /\ ~AddOf(STORE).ok
    /\ <<STORE, "get_all_records">> \in last.faults
    /\ last.res.outcome = "stopped"
    /\ spreadsheet = last.pre

NoDuplicates(q) == \A i, j \in 1..Len(q) : q[i] = q[j] => i = j
Ascending(q) == \A i \in 1..(Len(q) - 1) : StrLess(q[i], q[i + 1])

\* what C9 asks of a list of names
ListContract(q) ==
    /\ NoDuplicates(q)
    /\ \A i \in 1..Len(q) : q[i] # <<>> /\ strip(q[i]) = q[i]
    /\ Ascending(q)

\* C9: whatever the lookup sheets hold, the store list and the employee list
\* returned by get_employee_data have no duplicates, no empty name, only
\* trimmed names, and are sorted ascending.
C9_ListsUniqueTrimmedSorted ==
    Rendered => ListContract(last.stores) /\ ListContract(last.all_employees)

\* C10: a successful submission with a new store and a new employee, neither
\* yet in its lookup sheet, adds one row with the trimmed store name to the
\* Store Sheet, one row with the trimmed employee name to the Employee Sheet,
\* and one ledger row [store, employee, YYYY-MM-DD, before URL, after URL,
\* timestamp, "Visited", notes].
C10_NewNamesSubmission ==
    ( /\ Submitted
      /\ last.res.outcome = "success"
      /\ last.inp.store_selection = NEW_STORE
      /\ last.inp.employee_selection = NEW_EMPLOYEE
      /\ RowsNamed(last.pre[STORE], last.inp.new_store) = {}
      /\ RowsNamed(last.pre[EMPLOYEE], last.inp.new_employee) = {}
      /\ last.inp.entry_date = [year |-> 2024, month |-> 5, day |-> 1] ) =>
        LET ledger == spreadsheet[MAIN]
        IN  /\ DataRows(spreadsheet[STORE]) =
                  Append(DataRows(last.pre[STORE]), <<strip(last.inp.new_store)>>)
            /\ DataRows(spreadsheet[EMPLOYEE]) =
                  Append(DataRows(last.pre[EMPLOYEE]), <<strip(last.inp.new_employee)>>)
            /\ DataRows(ledger) = Append(DataRows(last.pre[MAIN]), ledger[Len(ledger)])
            /\ ledger[Len(ledger)] =
                  << strip(last.inp.new_store),
                     strip(last.inp.new_employee),
                     <<"2", "0", "2", "4", "-", "0", "5", "-", "0", "1">>,
                     last.res.before_url,
                     last.res.after_url,
                     <<last.now.stamp>>,
                     <<"Visited">>,
                     IF last.inp.out_of_stock THEN <<"Out of Stock">>
                     ELSE strip(last.inp.notes_input) >>
            /\ last.res.before_url # <<>>
            /\ last.res.after_url # <<>>
            /\ last.res.before_url # last.res.after_url

C10_Witness ==
    /\ Submitted
    /\ last.res.outcome = "success"
    /\ last.inp.new_store = <<"A", " ">>
    /\ last.inp.new_employee = <<" ", "J">>
    /\ RowsNamed(last.pre[STORE], last.inp.new_store) = {}
    /\ RowsNamed(last.pre[EMPLOYEE], last.inp.new_employee) = {}
    /\ last.inp.notes_input = <<" ", "n">>
    /\ spreadsheet[STORE][Len(spreadsheet[STORE])] = << <<"A">> >>
    /\ spreadsheet[EMPLOYEE][Len(spreadsheet[EMPLOYEE])] = << <<"J">> >>
    /\ spreadsheet[MAIN][Len(spreadsheet[MAIN])][8] = <<"n">>

\* the ledger row written by the submission just ended
WrittenRow == spreadsheet[MAIN][Len(spreadsheet[MAIN])]

RECURSIVE Embeds(_, _)
Embeds(a, b) ==
    IF a = <<>> THEN TRUE
    ELSE IF b = <<>> THEN FALSE
    ELSE IF Head(a) = Head(b) THEN Embeds(Tail(a), Tail(b))
    ELSE Embeds(a, Tail(b))

\* C12: no step of the system (handler initialisation with its guard run,
\* lookup insert, submission) updates or deletes a row: every row with data
\* that a worksheet held before the step is there after it, unchanged and in
\* the same relative order.
C12_AppendOnly ==
    [][\A sh \in SheetNames :
          Embeds(DataRows(spreadsheet[sh]), DataRows(spreadsheet'[sh]))]_vars

C12_Witness ==
    /\ Submitted
    /\ last.res.outcome = "success"
    /\ sessions = 2
    /\ guard_runs.n = 0
    /\ \A sh \in SheetNames :
          /\ Len(DataRows(last.pre[sh])) >= 2
          /\ Len(DataRows(spreadsheet[sh])) = Len(DataRows(last.pre[sh])) + 1
          /\ Embeds(DataRows(last.pre[sh]), DataRows(spreadsheet[sh]))

\* a required configuration value was found in no source
ConfigMissing(cfg) == ~cfg.bucket_name \/ ~cfg.spreadsheet_id \/ ~cfg.creds

\* a handler none of whose clients and worksheets was set up
Unconnected == [NoHandler EXCEPT !.created = TRUE]

\* C13: when the bucket name, the spreadsheet id or the credentials are missing
\* after every source was tried, setup constructs no client, touches no sheet
\* and no bucket, and leaves both connectivity flags false; a session whose
\* handler is not connected keeps that handler, writes nothing, and no
\* submission is processed in it.
C13_MissingConfigIsTerminal ==
    /\ []((Created /\ ConfigMissing(last.cfg)) =>
            /\ handler = Unconnected
            /\ ~last.guard
            /\ last.msg = NoMsg
            /\ spreadsheet = last.pre)
    /\ [](Submitted => handler.sheets /\ handler.storage)
    /\ [][(handler.created /\ ~(handler.sheets /\ handler.storage)) =>
            /\ handler' = handler \/ handler' = NoHandler
            /\ spreadsheet' = spreadsheet
            /\ titles' = titles
            /\ blobs' = blobs
            /\ submissions' = submissions]_vars

C13_Witness ==
    /\ Created
    /\ ~last.cfg.spreadsheet_id
    /\ handler = Unconnected
    /\ titles = {MAIN}
    /\ spreadsheet = EmptySpreadsheet

\* an exception leaves the "Setup Google Sheets" block: the spreadsheet cannot
\* be opened, an existing lookup worksheet cannot be fetched, or a missing one
\* cannot be created or given its header
SheetsSetupFails(F, pre_titles) ==
    \/ <<"", "open_by_key">> \in F
    \/ \E sh \in {EMPLOYEE, STORE} :
          \/ sh \in pre_titles /\ <<sh, "worksheet">> \in F
          \/ sh \notin pre_titles /\ <<sh, "add_worksheet">> \in F
          \/ sh \notin pre_titles /\ <<sh, "append_header">> \in F

\* an exception leaves the "Setup Google Cloud Storage" block
StorageSetupFails(F) == F \cap StorageFaults # {}

\* C14: with a complete configuration the "sheets" flag is true exactly when
\* the sheets setup did not fail and the "storage" flag is true exactly when
\* the storage setup did not fail, each whatever happened to the other.
C14_FlagsIndependent ==
    (Created /\ ~ConfigMissing(last.cfg)) =>
        /\ handler.sheets = ~SheetsSetupFails(last.faults, last.pre_titles)
        /\ handler.storage = ~StorageSetupFails(last.faults)

C14_Witness ==
    /\ Created
    /\ ~ConfigMissing(last.cfg)
    /\ ~handler.sheets
    /\ handler.storage
    /\ handler.bucket
    /\ last.faults = {<<"", "open_by_key">>}

C14_SheetsOnly ==
    Created /\ ~ConfigMissing(last.cfg) /\ handler.sheets /\ ~handler.storage

C14_BothDown ==
    /\ Created /\ ~ConfigMissing(last.cfg) /\ ~handler.sheets /\ ~handler.storage
    /\ SheetsSetupFails(last.faults, last.pre_titles)
    /\ StorageSetupFails(last.faults)

C14_BothUp ==
    Created /\ ~ConfigMissing(last.cfg) /\ handler.sheets /\ handler.storage

\* the ways a submission is reported to the user: the list of missing fields,
\* "Error processing submission", "Failed to add store/employee",
\* "Failed to upload images", "Failed to save data", the success box
ReportedOutcomes ==
    {"invalid", "exception", "stopped", "upload_failed", "save_failed", "success"}

\* C15: every submission, whichever step of it fails, ends in a reported
\* outcome, and the script run then ends and leaves the session idle with its
\* handler still connected, so that a further submission can be made.
C15_SubmissionEndsReported ==
    /\ [](Submitted => last.res.outcome \in ReportedOutcomes)
    /\ (Submitted ~> (last = Idle /\ Ready))
    /\ []((last = Idle /\ Ready /\ submissions < MaxSubmissions) => ENABLED Submit)

\* a submission succeeds after one whose after-image upload failed
C15_Witness ==
    /\ Submitted
    /\ last.res.outcome = "success"
    /\ submissions = 2
    /\ Cardinality(last.pre_blobs) = 1
    /\ last.pre[MAIN] = <<main_expected_headers>>

Returned == upload_call.phase = "returned"

\* width and height of the image of the call once its orientation tag is applied
OrientedW ==
    IF upload_call.image.orientation \in 5..8 THEN upload_call.image.h
    ELSE upload_call.image.w
OrientedH ==
    IF upload_call.image.orientation \in 5..8 THEN upload_call.image.w
    ELSE upload_call.image.h

Larger(a, b) == IF a >= b THEN a ELSE b
Smaller(a, b) == IF a >= b THEN b ELSE a

\* C16: for every image of width w and height h (as oriented) whose upload
\* call does not fail, an image is stored; when max(w, h) > 1920 its larger
\* side is 1920, on the same axis, and its other side is
\* floor(1920 * min(w, h) / max(w, h)); otherwise its size is w x h.
C16_ResizeDims ==
    (Returned /\ <<upload_call.img_type, "upload_from_file">> \notin upload_call.faults) =>
        LET w == OrientedW
            h == OrientedH
            stored == upload_call.res.stored
        IN  /\ upload_call.res.url # <<>>
            /\ stored # <<>>
            /\ Larger(w, h) > 1920 =>
                  /\ Larger(stored[1], stored[2]) = 1920
                  /\ Smaller(stored[1], stored[2]) =
                        (1920 * Smaller(w, h)) \div Larger(w, h)
                  /\ (w > h) => stored[1] = 1920
                  /\ (h > w) => stored[2] = 1920
            /\ Larger(w, h) <= 1920 => stored = <<w, h>>

\* the characters a path segment may keep, and those it may consist of
PathSafe == Alnum \cup {" ", "-", "_"}
SegmentChars == Alnum \cup {"-", "_"}

\* the claim's sanitization: drop what is not alphanumeric, space, hyphen or
\* underscore; cut the spaces at both ends; turn each space left into "_"
Sanitized(name) ==
    LET kept == SelectSeq(name, LAMBDA c : c \in PathSafe)
        solid == {i \in 1..Len(kept) : kept[i] # " "}
        lo == CHOOSE i \in solid : \A j \in solid : i <= j
        hi == CHOOSE i \in solid : \A j \in solid : i >= j
    IN  IF solid = {} THEN <<>>
        ELSE [i \in 1..(hi - lo + 1) |->
                 IF kept[lo + i - 1] = " " THEN "_" ELSE kept[lo + i - 1]]

\* the object written by the call, and the positions of "/" in its path
StoredPath == CHOOSE path \in blobs : TRUE
Slashes(path) == {i \in 1..Len(path) : path[i] = "/"}
NthSlash(path, n) ==
    CHOOSE i \in Slashes(path) : Cardinality({j \in Slashes(path) : j < i}) = n - 1
Segment(path, n) ==
    SubSeq(path, NthSlash(path, n) + 1, NthSlash(path, n + 1) - 1)

\* C17: the store and employee segments of the path of an uploaded object are
\* the sanitized names: characters other than alphanumerics, space, hyphen
\* and underscore removed, then trimmed, then each space replaced by "_"; they
\* hold only alphanumerics, hyphens and underscores, and "Acme #1 (East)"
\* gives "Acme_1_East".
C17_PathSanitized ==
    (Returned /\ upload_call.res.uploaded = 1) =>
        /\ blobs # {}
        /\ Segment(StoredPath, 1) = Sanitized(upload_call.store)
        /\ Segment(StoredPath, 2) = Sanitized(upload_call.employee)
        /\ Range(Segment(StoredPath, 1)) \subseteq SegmentChars
        /\ Range(Segment(StoredPath, 2)) \subseteq SegmentChars
        /\ upload_call.store = ACME =>
              Segment(StoredPath, 1) =
                  <<"A", "c", "m", "e", "_", "1", "_", "E", "a", "s", "t">>

C17_Witness ==
    /\ Returned
    /\ upload_call.res.uploaded = 1
    /\ upload_call.store = <<" ", "#", "A", " ", " ", "B", "#", " ">>
    /\ upload_call.employee = <<"(", "K", " ", "-", "n", " ">>
    /\ Segment(StoredPath, 1) = <<"A", "_", "_", "B">>
    /\ Segment(StoredPath, 2) = <<"K", "_", "-", "n">>

\* the step of a submission an external call belongs to
Stage(call) ==
    CASE call[1] = STORE -> 1
      [] call[1] = EMPLOYEE -> 2
      [] call[1] = "before" -> 3
      [] call[1] = "after" -> 4
      [] call[1] = MAIN -> 5

\* the positions of a call in the calls of the submission just ended
Positions(call) == {i \in 1..Len(last.res.calls) : last.res.calls[i] = call}

\* C18: the external calls of a submission that passed validation are issued
\* in the order store insert, employee insert, before upload, after upload,
\* ledger append; the inserts only for a new store or employee; the ledger
\* append only after both uploads were issued and had returned a URL.
C18_CallOrder ==
    (Submitted /\ last.res.errors = <<>>) =>
        LET calls == last.res.calls
        IN  /\ \A i, j \in 1..Len(calls) : i < j => Stage(calls[i]) <= Stage(calls[j])
            /\ (\E i \in 1..Len(calls) : Stage(calls[i]) = 1) =>
                  last.inp.store_selection = NEW_STORE
            /\ (\E i \in 1..Len(calls) : Stage(calls[i]) = 2) =>
                  last.inp.employee_selection = NEW_EMPLOYEE
            /\ Cardinality(Positions(<<MAIN, "append_row">>)) <= 1
            /\ \A k \in Positions(<<MAIN, "append_row">>) :
                  /\ k = Len(calls)
                  /\ \E i, j \in 1..(k - 1) :
                        /\ i < j
                        /\ calls[i] = <<"before", "upload_from_file">>
                        /\ calls[j] = <<"after", "upload_from_file">>
                  /\ last.res.before_url # <<>>
                  /\ last.res.after_url # <<>>
            /\ spreadsheet[MAIN] # last.pre[MAIN] =>
                  Positions(<<MAIN, "append_row">>) # {}

C18_Witness ==
    /\ Submitted
    /\ last.res.outcome = "success"
    /\ last.res.calls =
          << <<STORE, "get_all_records">>, <<STORE, "append_row">>,
             <<EMPLOYEE, "get_all_records">>, <<EMPLOYEE, "append_row">>,
             <<"before", "upload_from_file">>, <<"before", "make_public">>,
             <<"after", "upload_from_file">>, <<"after", "make_public">>,
             <<MAIN, "append_row">> >>

\* the positions of a call in the calls of the upload that returned
UploadPositions(call) ==
    {i \in 1..Len(upload_call.res.calls) : upload_call.res.calls[i] = call}

\* C20: whenever upload_image wrote the object it returns
\* https://storage.googleapis.com/<bucket>/<path of the object>, whether
\* make_public and the ACL grant succeed or fail; the ACL grant is issued only
\* after a make_public call that failed.
C20_UrlDespiteGrantFailure ==
    Returned =>
        LET t == upload_call.img_type
            F == upload_call.faults
            res == upload_call.res
        IN  /\ blobs # {} =>
                  /\ res.url = <<"https://storage.googleapis.com/", BUCKET_NAME, "/">>
                                   \o StoredPath
                  /\ res.url # <<>>
            /\ \A k \in UploadPositions(<<t, "acl_save">>) :
                  /\ <<t, "make_public">> \in F
                  /\ \E i \in 1..(k - 1) : res.calls[i] = <<t, "make_public">>
            /\ res.acl_tried <=> UploadPositions(<<t, "acl_save">>) # {}
            /\ (blobs # {} /\ <<t, "make_public">> \in F) =>
                  UploadPositions(<<t, "acl_save">>) # {}

C20_Witness ==
    /\ Returned
    /\ blobs # {}
    /\ {<<upload_call.img_type, "make_public">>,
        <<upload_call.img_type, "acl_save">>} \subseteq upload_call.faults
    /\ upload_call.res.access = "private"
    /\ upload_call.res.url = public_url(StoredPath)

\* ------------------------------------------------------------- two sessions adding a name at once
\* Each session runs its own script thread; one call of add_store_to_sheet
\* (add_employee_to_sheet) makes two requests to the Sheets service,
\* get_all_records and append_row, and the other session's requests can be
\* served between them.  Each request is served atomically by the service.
RaceSessions == {1, 2}
RaceNames == {<<"A">>, <<"A", " ">>, <<"B">>}
RaceFaults(sh) == FaultSets({<<sh, "get_all_records">>, <<sh, "append_row">>})
AllConfigured == [bucket_name |-> TRUE, spreadsheet_id |-> TRUE, creds |-> TRUE]

\* both sessions have connected (the schema guard has run) and each is about
\* to call add_store_to_sheet or add_employee_to_sheet
RaceInit ==
    /\ \E i \in InitialSpreadsheets :
          LET r == setup_connections(AllConfigured, i.ss, i.titles, TRUE, {})
          IN  /\ spreadsheet = r.ss
              /\ titles = r.titles
              /\ handler = r.handler
              /\ \E sh \in {STORE, EMPLOYEE}, n1 \in RaceNames, n2 \in RaceNames :
                    \E F1 \in RaceFaults(sh), F2 \in RaceFaults(sh) :
                        race = [phase |-> "race", sheet |-> sh, pre |-> r.ss[sh],
                                name |-> <<n1, n2>>, faults |-> <<F1, F2>>,
                                pc |-> <<"called", "called">>,
                                records |-> << <<>>, <<>> >>,
                                path |-> <<"none", "none">>,
                                ok |-> <<FALSE, FALSE>>,
                                listed |-> FALSE, list |-> <<>>]
    /\ bucket_exists = TRUE
    /\ blobs = {}
    /\ sessions = 2
    /\ submissions = 0
    /\ appended = <<>>
    /\ prev_add = (STORE :> NoAdd) @@ (EMPLOYEE :> NoAdd)
    /\ guard_runs = NoGuardRuns
    /\ last = Idle
    /\ upload_call = NoUploadCall
    /\ config_call = NoConfigCall
    /\ guard_race = NoGuardRace

RaceKey == IF race.sheet = STORE THEN STORE_KEY ELSE EMPLOYEE_KEY

\* records = worksheet.get_all_records() of session s
RaceRead(s) ==
    /\ race.phase = "race"
    /\ race.pc[s] = "called"
    /\ IF <<race.sheet, "get_all_records">> \in race.faults[s]
       THEN race' = [race EXCEPT !.pc[s] = "returned", !.path[s] = "read_failed",
                                 !.ok[s] = FALSE]
       ELSE race' = [race EXCEPT !.pc[s] = "read",
                                 !.records[s] = spreadsheet[race.sheet]]
    /\ UNCHANGED <<spreadsheet, titles, bucket_exists, blobs, handler, sessions,
                   submissions, appended, prev_add, guard_runs, last, upload_call,
                   config_call, guard_race>>

\* the write of a session that puts back the records it read, with its row
RaceAppendOverRead(s) ==
    /\ race.phase = "race"
    /\ race.pc[s] = "read"
    /\ IF ExistsInRecords(race.records[s], RaceKey, race.name[s])
       THEN /\ race' = [race EXCEPT !.pc[s] = "returned", !.path[s] = "exists",
                                    !.ok[s] = TRUE]
            /\ UNCHANGED spreadsheet
       ELSE IF <<race.sheet, "append_row">> \in race.faults[s]
       THEN /\ race' = [race EXCEPT !.pc[s] = "returned", !.path[s] = "append_failed",
                                    !.ok[s] = FALSE]
            /\ UNCHANGED spreadsheet
       ELSE /\ race' = [race EXCEPT !.pc[s] = "returned", !.path[s] = "appended",
                                    !.ok[s] = TRUE]
            /\ spreadsheet' =
                  [spreadsheet EXCEPT
                      ![race.sheet] = append_row(race.records[s], <<strip(race.name[s])>>)]
    /\ UNCHANGED <<titles, bucket_exists, blobs, handler, sessions,
                   submissions, appended, prev_add, guard_runs, last, upload_call,
                   config_call, guard_race>>

\* the loop over the records session s read, then worksheet.append_row on the
\* sheet as it is now
RaceAppend(s) ==
    /\ race.phase = "race"
    /\ race.pc[s] = "read"
    /\ IF ExistsInRecords(race.records[s], RaceKey, race.name[s])
       THEN /\ race' = [race EXCEPT !.pc[s] = "returned", !.path[s] = "exists",
                                    !.ok[s] = TRUE]
            /\ UNCHANGED spreadsheet
       ELSE IF <<race.sheet, "append_row">> \in race.faults[s]
       THEN /\ race' = [race EXCEPT !.pc[s] = "returned", !.path[s] = "append_failed",
                                    !.ok[s] = FALSE]
            /\ UNCHANGED spreadsheet
       ELSE /\ race' = [race EXCEPT !.pc[s] = "returned", !.path[s] = "appended",
                                    !.ok[s] = TRUE]
            /\ spreadsheet' =
                  [spreadsheet EXCEPT
                      ![race.sheet] = append_row(@, <<strip(race.name[s])>>)]
    /\ UNCHANGED <<titles, bucket_exists, blobs, handler, sessions,
                   submissions, appended, prev_add, guard_runs, last, upload_call,
                   config_call, guard_race>>

\* a later script run lists the names of the sheet
RaceList ==
    /\ race.phase = "race"
    /\ \A s \in RaceSessions : race.pc[s] = "returned"
    /\ ~race.listed
    /\ race' = [race EXCEPT
                   !.listed = TRUE,
                   !.list = IF race.sheet = STORE
                            THEN get_stores_from_store_sheet(handler, spreadsheet, {})
                            ELSE get_employee_data(handler, spreadsheet, {})[2]]
    /\ UNCHANGED <<spreadsheet, titles, bucket_exists, blobs, handler, sessions,
                   submissions, appended, prev_add, guard_runs, last, upload_call,
                   config_call, guard_race>>

RaceNext ==
    \/ \E s \in RaceSessions : RaceRead(s)
    \/ \E s \in RaceSessions : RaceAppend(s)
    \/ RaceList

RaceSpec == RaceInit /\ [][RaceNext]_vars

\* both sessions were given the same name (as the comparison sees it), no row
\* of the sheet held it, and no request of either failed
SameNewName ==
    /\ race.phase = "race"
    /\ strip(race.name[1]) = strip(race.name[2])
    /\ RowsNamed(race.pre, race.name[1]) = {}
    /\ race.faults = << {}, {} >>

BothReturned == \A s \in RaceSessions : race.pc[s] = "returned"
Appenders == {s \in RaceSessions : race.path[s] = "appended"}
TimesListed(name) ==
    Cardinality({i \in 1..Len(race.list) : strip(race.list[i]) = strip(name)})

\* no row is lost: the rows there before are still there in their order, and
\* the name has one row for each session that appended it (one or two)
RaceKeepsRows ==
    (SameNewName /\ BothReturned) =>
        /\ Appenders # {}
        /\ \A s \in RaceSessions : race.ok[s]
        /\ Embeds(DataRows(race.pre), DataRows(spreadsheet[race.sheet]))
        /\ Cardinality(RowsNamed(spreadsheet[race.sheet], race.name[1]))
              = Cardinality(Appenders)

C19_RaceUnlisted ==
    /\ SameNewName
    /\ race.listed
    /\ Appenders = RaceSessions
    /\ ~HasColumn(spreadsheet[race.sheet], RaceKey)
    /\ race.list = <<>>

\* an insert into a lookup sheet was called by the submission just ended and
\* returned false
InsertFailed(sh) == Submitted /\ AddOf(sh).called /\ ~AddOf(sh).ok

\* C24: when add_store_to_sheet or add_employee_to_sheet returns false for a
\* new name the submission stops: no call to the bucket or to the ledger is
\* issued, the bucket and the ledger stay as they were, and a store row added
\* earlier in the same submission stays in the Store Sheet.
C24_FailedInsertStops ==
    (InsertFailed(STORE) \/ InsertFailed(EMPLOYEE)) =>
        /\ last.res.outcome = "stopped"
        /\ \A i \in 1..Len(last.res.calls) : Stage(last.res.calls[i]) <= 2
        /\ last.res.uploaded = 0
        /\ last.res.before_url = <<>> /\ last.res.after_url = <<>>
        /\ blobs = last.pre_blobs
        /\ spreadsheet[MAIN] = last.pre[MAIN]
        /\ InsertFailed(STORE) =>
              /\ ~AddOf(EMPLOYEE).called
              /\ spreadsheet[EMPLOYEE] = last.pre[EMPLOYEE]
        /\ (InsertFailed(EMPLOYEE) /\ AddOf(STORE).path = "appended") =>
              /\ DataRows(spreadsheet[STORE]) =
                    Append(DataRows(last.pre[STORE]), <<strip(last.inp.new_store)>>)

\* the employee insert failed after the store insert had appended its row
C24_Witness ==
    /\ InsertFailed(EMPLOYEE)
    /\ AddOf(STORE).called /\ AddOf(STORE).path = "appended"
    /\ spreadsheet[STORE] # last.pre[STORE]
    /\ last.res.outcome = "stopped"
    /\ blobs = last.pre_blobs

\* C22: the form is shown and a submission is processed only in a session
\* whose handler has both flags true; every step that uploads, inserts or
\* appends is taken with both flags true; a session's handler is built only
\* when the session has none, and once built it stays as it is until the
\* session ends.
C22_ConnectivityHalts ==
    /\ []((Submitted \/ Rendered) => (handler.sheets /\ handler.storage))
    /\ [][(blobs' # blobs \/ appended' # appended \/ prev_add' # prev_add
              \/ submissions' # submissions) =>
            /\ handler.sheets /\ handler.storage
            /\ handler' = handler]_vars
    /\ [][handler' # handler =>
            \/ ~handler.created /\ handler'.created /\ sessions' = sessions
            \/ handler.created /\ handler' = NoHandler /\ sessions' = sessions + 1]_vars

\* the second session's handler has one flag down and the session is halted,
\* after the first session processed a submission
C22_Witness ==
    /\ sessions = 2
    /\ submissions = 1
    /\ last = Idle
    /\ handler.created
    /\ handler.sheets
    /\ ~handler.storage
    /\ ~ENABLED Submit
    /\ ~ENABLED Render

\* C25: after a handler is built its "storage" flag is true only if the
\* configured bucket exists; a bucket that bucket.exists() reports as
\* missing never leaves the flag true.
C25_StorageFlagMeansBucket ==
    (Created /\ handler.storage) => bucket_exists

\* in a session connected to a missing bucket a submission is accepted and
\* both of its uploads fail
C25_MissingBucketSubmission ==
    /\ Submitted
    /\ ~bucket_exists
    /\ handler.storage
    /\ last.res.outcome = "upload_failed"

\* ------------------------------------------------------------- configuration resolution alone
\* A value that may be None: a secret, an environment variable, the content of
\* a file that may not exist.  Texts are sequences of tokens; a JSON object is
\* written "{", its keys, "}" and parsed to the sequence of its keys.
None == [none |-> TRUE]
Value(v) == [none |-> FALSE, v |-> v]

\* "if x:" / "if not x:" on a value that is None, a string or a dict
truthy(x) == ~x.none /\ x.v # <<>>

\* json.loads / json.load: ok is false when JSONDecodeError is raised
json_loads(text) ==
    IF Len(text) >= 2 /\ text[1] = "{" /\ text[Len(text)] = "}"
    THEN [ok |-> TRUE, value |-> SubSeq(text, 2, Len(text) - 1)]
    ELSE [ok |-> FALSE, value |-> <<>>]

\* _get_secret: the import, the client or the access may raise; every
\* exception is caught and None returned
get_secret(secret) == IF secret.fails THEN None ELSE Value(secret.value)

\* the environment variable taken ahead of the secret
env_first(from_secret, from_env) ==
    IF truthy(from_env) THEN from_env ELSE from_secret

\* "if not bucket_name: bucket_name = os.getenv(...)"
or_getenv(from_secret, from_env) ==
    IF truthy(from_secret) THEN from_secret ELSE from_env

CREDS_PATH == <<"/", "p">>

\* the credentials of _setup_connections: raised tells that an exception left
\* the resolution for the outer handler ("Setup error")
resolve_creds(secret, env, files) ==
    LET creds_json == get_secret(secret)
        from_secret == IF truthy(creds_json) /\ json_loads(creds_json.v).ok
                       THEN Value(json_loads(creds_json.v).value)
                       ELSE None
        env_parse == IF truthy(env) THEN json_loads(env.v)
                     ELSE [ok |-> FALSE, value |-> <<>>]
        is_path == truthy(env) /\ ~env_parse.ok /\ env.v = CREDS_PATH
                      /\ ~files.named.none
        path_parse == json_loads(files.named.v)
        from_env == IF truthy(env) /\ env_parse.ok THEN Value(env_parse.value)
                    ELSE IF is_path /\ path_parse.ok THEN Value(path_parse.value)
                    ELSE None
        default_parse == json_loads(files.default.v)
    IN  IF truthy(from_secret) THEN [raised |-> FALSE, creds_dict |-> from_secret]
        ELSE IF is_path /\ ~path_parse.ok THEN [raised |-> TRUE, creds_dict |-> None]
        ELSE IF truthy(from_env) THEN [raised |-> FALSE, creds_dict |-> from_env]
        ELSE IF files.default.none THEN [raised |-> FALSE, creds_dict |-> from_env]
        ELSE IF ~default_parse.ok THEN [raised |-> TRUE, creds_dict |-> None]
        ELSE [raised |-> FALSE, creds_dict |-> Value(default_parse.value)]

\* lines 223-272 of _setup_connections: the three values, and whether the
\* configuration is complete
resolve_config(c) ==
    LET bucket_name == or_getenv(get_secret(c.secret.bucket), c.env.bucket)
        spreadsheet_id == or_getenv(get_secret(c.secret.sheet), c.env.sheet)
        creds == resolve_creds(c.secret.creds, c.env.creds, c.files)
    IN  [bucket_name |-> bucket_name, spreadsheet_id |-> spreadsheet_id,
         creds_dict |-> creds.creds_dict, raised |-> creds.raised,
         complete |-> /\ ~creds.raised
                      /\ truthy(bucket_name)
                      /\ truthy(spreadsheet_id)
                      /\ truthy(creds.creds_dict)]

ConfigInit ==
    /\ spreadsheet = InUse
    /\ titles = SheetNames
    /\ bucket_exists = TRUE
    /\ blobs = {}
    /\ handler = NoHandler
    /\ sessions = 1
    /\ submissions = 0
    /\ appended = <<>>
    /\ prev_add = (STORE :> NoAdd) @@ (EMPLOYEE :> NoAdd)
    /\ guard_runs = NoGuardRuns
    /\ last = Idle
    /\ upload_call = NoUploadCall
    /\ race = NoRace
    /\ guard_race = NoGuardRace
    /\ \E sb, ss \in {[fails |-> TRUE, value |-> <<>>], [fails |-> FALSE, value |-> <<>>],
                      [fails |-> FALSE, value |-> <<"S">>]},
          eb, es \in {None, Value(<<>>), Value(<<"E">>)},
          sc \in {[fails |-> TRUE, value |-> <<>>], [fails |-> FALSE, value |-> <<>>],
                  [fails |-> FALSE, value |-> <<"{", "s", "}">>],
                  [fails |-> FALSE, value |-> <<"{", "}">>],
                  [fails |-> FALSE, value |-> <<"x">>]},
          ec \in {None, Value(<<>>), Value(<<"{", "e", "}">>), Value(<<"{", "}">>),
                  Value(CREDS_PATH), Value(<<"x">>)},
          fn \in {None, Value(<<"{", "p", "}">>), Value(<<"x">>)},
          fd \in {None, Value(<<"{", "d", "}">>), Value(<<"{", "}">>), Value(<<"x">>)} :
          config_call = [phase |-> "called",
                         secret |-> [bucket |-> sb, sheet |-> ss, creds |-> sc],
                         env |-> [bucket |-> eb, sheet |-> es, creds |-> ec],
                         files |-> [named |-> fn, default |-> fd]]

\* the configuration part of _setup_connections returns
ResolveConfig ==
    /\ config_call.phase = "called"
    /\ config_call' = [phase |-> "returned", secret |-> config_call.secret,
                       env |-> config_call.env, files |-> config_call.files,
                       res |-> resolve_config(config_call)]
    /\ UNCHANGED <<spreadsheet, titles, bucket_exists, blobs, handler, sessions,
                   submissions, appended, prev_add, guard_runs, last, upload_call,
                   race, guard_race>>

ConfigNext == ResolveConfig

ConfigSpec == ConfigInit /\ [][ConfigNext]_vars

Resolved == config_call.phase = "returned"

\* the secret of a field holds a non-empty value and could be read
SecretNonEmpty(field) ==
    ~config_call.secret[field].fails /\ config_call.secret[field].value # <<>>

\* the value the claim's order gives a field that has the two sources
SecretThenEnv(field) ==
    IF SecretNonEmpty(field) THEN Value(config_call.secret[field].value)
    ELSE config_call.env[field]

\* a text that parses to a JSON object with at least one key
Usable(text) == json_loads(text).ok /\ json_loads(text).value # <<>>

CredsAfterSecret ==
    LET env == config_call.env.creds
        named == config_call.files.named
        default == config_call.files.default
        env_json == truthy(env) /\ json_loads(env.v).ok
        env_file == truthy(env) /\ ~env_json /\ env.v = CREDS_PATH /\ ~named.none
        default_stage ==
            IF default.none THEN [raised |-> FALSE, usable |-> FALSE, dict |-> <<>>]
            ELSE IF ~json_loads(default.v).ok
            THEN [raised |-> TRUE, usable |-> FALSE, dict |-> <<>>]
            ELSE [raised |-> FALSE, usable |-> Usable(default.v),
                  dict |-> json_loads(default.v).value]
    IN  IF env_json /\ Usable(env.v)
        THEN [raised |-> FALSE, usable |-> TRUE, dict |-> json_loads(env.v).value]
        ELSE IF env_file /\ ~json_loads(named.v).ok
        THEN [raised |-> TRUE, usable |-> FALSE, dict |-> <<>>]
        ELSE IF env_file /\ Usable(named.v)
        THEN [raised |-> FALSE, usable |-> TRUE, dict |-> json_loads(named.v).value]
        ELSE default_stage

C21_SecretPassedOver ==
    /\ Resolved
    /\ config_call.secret.creds = [fails |-> FALSE, value |-> <<"x">>]
    /\ config_call.res.creds_dict = Value(<<"e">>)

\* ------------------------------------------------------------- the guard beside another session
\* _ensure_sheet_structure makes up to four requests for a worksheet:
\* row_values(1), get_all_values(), clear(), append_row(headers).  Another
\* session's requests on the same worksheet can be served between them: its
\* own guard (taken here in one piece) and the rows it appends afterwards.
OtherRows(sh) == IF sh = MAIN THEN {OldRow} ELSE { << <<"A">> >>, << <<"B">> >> }

GuardRaceInit ==
    /\ \E sh \in SheetNames, ws \in {<<>>, <<BlankRow(1)>>} :
          \E F \in FaultSets({<<sh, "row_values">>, <<sh, "get_all_values">>,
                              <<sh, "clear">>, <<sh, "append_row">>}) :
              /\ spreadsheet = [EmptySpreadsheet EXCEPT ![sh] = ws]
              /\ guard_race = [phase |-> "race", sheet |-> sh, faults |-> F,
                               pc |-> "called", other |-> "connecting",
                               written |-> <<>>, cleared |-> <<>>]
    /\ titles = SheetNames
    /\ bucket_exists = TRUE
    /\ blobs = {}
    /\ handler = Connected
    /\ sessions = 2
    /\ submissions = 0
    /\ appended = <<>>
    /\ prev_add = (STORE :> NoAdd) @@ (EMPLOYEE :> NoAdd)
    /\ guard_runs = NoGuardRuns
    /\ last = Idle
    /\ upload_call = NoUploadCall
    /\ race = NoRace
    /\ config_call = NoConfigCall

GuardRaceFrame ==
    UNCHANGED <<titles, bucket_exists, blobs, handler, sessions, submissions,
                appended, prev_add, guard_runs, last, upload_call, race, config_call>>

\* current_headers = worksheet.row_values(1), [] when it raises
GuardRowValues ==
    /\ guard_race.phase = "race"
    /\ guard_race.pc = "called"
    /\ LET sh == guard_race.sheet
           current == IF <<sh, "row_values">> \in guard_race.faults THEN <<>>
                      ELSE row_values(spreadsheet[sh])
       IN  guard_race' = [guard_race EXCEPT
                             !.pc = IF current = <<>> THEN "row_1_empty" ELSE "done"]
    /\ UNCHANGED spreadsheet
    /\ GuardRaceFrame

\* all_values = worksheet.get_all_values() and the emptiness test
GuardGetAllValues ==
    /\ guard_race.phase = "race"
    /\ guard_race.pc = "row_1_empty"
    /\ LET sh == guard_race.sheet
           all_values == get_all_values(spreadsheet[sh])
       IN  guard_race' = [guard_race EXCEPT
                             !.pc = IF <<sh, "get_all_values">> \in guard_race.faults
                                    THEN "done"
                                    ELSE IF all_values = <<>>
                                            \/ (Len(all_values) = 1
                                                /\ IsBlankRow(all_values[1]))
                                    THEN "found_empty"
                                    ELSE "done"]
    /\ UNCHANGED spreadsheet
    /\ GuardRaceFrame

\* worksheet.clear()
GuardClear ==
    /\ guard_race.phase = "race"
    /\ guard_race.pc = "found_empty"
    /\ LET sh == guard_race.sheet
       IN  IF <<sh, "clear">> \in guard_race.faults
           THEN /\ guard_race' = [guard_race EXCEPT !.pc = "done"]
                /\ UNCHANGED spreadsheet
           ELSE /\ guard_race' = [guard_race EXCEPT
                                     !.pc = "cleared",
                                     !.cleared = DataRows(spreadsheet[sh])]
                /\ spreadsheet' = [spreadsheet EXCEPT ![sh] = clear(@)]
    /\ GuardRaceFrame

\* worksheet.append_row(expected_headers)
GuardAppendHeaders ==
    /\ guard_race.phase = "race"
    /\ guard_race.pc = "cleared"
    /\ LET sh == guard_race.sheet
       IN  IF <<sh, "append_row">> \in guard_race.faults
           THEN UNCHANGED spreadsheet
           ELSE spreadsheet' =
                   [spreadsheet EXCEPT ![sh] = append_row(@, expected_headers(sh))]
    /\ guard_race' = [guard_race EXCEPT !.pc = "done"]
    /\ GuardRaceFrame

\* the other session builds its handler: its guard runs on the worksheet
OtherConnects ==
    /\ guard_race.phase = "race"
    /\ guard_race.other = "connecting"
    /\ LET sh == guard_race.sheet
       IN  spreadsheet' = [spreadsheet EXCEPT ![sh] = ensure_one(sh, @, {}).ws]
    /\ guard_race' = [guard_race EXCEPT !.other = "ready"]
    /\ GuardRaceFrame

\* the other session appends a row: a ledger row or a lookup insert
OtherAppends ==
    /\ guard_race.phase = "race"
    /\ guard_race.other = "ready"
    /\ Len(guard_race.written) < MaxRaceAppends
    /\ \E row \in OtherRows(guard_race.sheet) :
          /\ spreadsheet' = [spreadsheet EXCEPT ![guard_race.sheet] = append_row(@, row)]
          /\ guard_race' = [guard_race EXCEPT !.written = Append(@, row)]
    /\ GuardRaceFrame

GuardRaceNext ==
    \/ GuardRowValues
    \/ GuardGetAllValues
    \/ GuardClear
    \/ GuardAppendHeaders
    \/ OtherConnects
    \/ OtherAppends

GuardRaceSpec == GuardRaceInit /\ [][GuardRaceNext]_vars

\* C23: whatever the interleaving of one session's guard with another
\* session's header initialisation and appends on a worksheet that was empty,
\* every row the other session appended is still in the worksheet.
C23_GuardKeepsAppendedRows ==
    guard_race.phase = "race" =>
        Embeds(guard_race.written,
               DataRows(spreadsheet[guard_race.sheet]))

\* the guard's clear removed the other session's header and a row it had
\* appended, and the guard went on to write its header
C23_RowCleared ==
    /\ guard_race.phase = "race"
    /\ guard_race.pc = "done"
    /\ guard_race.faults = {}
    /\ Len(guard_race.written) = 1
    /\ guard_race.cleared = <<expected_headers(guard_race.sheet)>> \o guard_race.written
    /\ spreadsheet[guard_race.sheet] = <<expected_headers(guard_race.sheet)>>

\* a guard whose four requests are served with no other request in between
\* removes nothing
C23_ClearedOnlyEmpty ==
    (guard_race.phase = "race" /\ guard_race.written = <<>>
        /\ guard_race.other = "connecting") => guard_race.cleared = <<>>

====
